---------------------------- MODULE Spec2Model ----------------------------
(***************************************************************************)
(* Availability and booking engine of retell-calendar-webhook.             *)
(*                                                                         *)
(* Time is counted in whole minutes of the calendar's wall clock; day d    *)
(* begins at minute d * MinutesPerDay and day 0 is a Monday.  A value with *)
(* sub-minute precision (the clock, a caller-supplied window start) is a   *)
(* record [min, sub]: min whole minutes plus, when sub = 1, a non-zero     *)
(* part of the next minute.  Offsets of daylight-saving changes are left   *)
(* out: every day has MinutesPerDay minutes.                               *)
(*                                                                         *)
(* The module holds six components, selected by `mode`:                    *)
(*   "scan"  findAvailableSlotsMultiDay of src/GoogleCalendarWebhook.js    *)
(*   "fn"    the pure slot generators and interval merges                  *)
(*   "book"  the POST /book handler against a shared calendar              *)
(*   "avail" the POST /availability handler and its upstream calls         *)
(*   "launch" the launcher of src/main.js and src/main_25-11-21.js         *)
(*   "gen"   the slot-generation loops, one iteration at a time            *)
(***************************************************************************)
EXTENDS Integers, Sequences, FiniteSets, TLC

VARIABLES
    mode,            \* which component this behaviour exercises
    \* ---- findAvailableSlotsMultiDay (GoogleCalendarWebhook.js 266-333)
    scanPc,          \* "off" | "loop" | "done"
    now,             \* DateTime.now().setZone(timezone), read once (268)
    startDate,       \* day index of the startDate argument
    daysToCheck,     \* argument daysToCheck
    windowParams,    \* [start_hour, end_hour, slot_duration_minutes]
    maxSlots,        \* argument maxSlots
    slotAlignment,   \* SLOT_ALIGNMENT_MINUTES of the process (21)
    busyByDay,       \* what freebusy.query answers for each day offset
    dayOffset,       \* loop variable of the for loop (270)
    allSlots,        \* the result under construction (267)
    fetched,         \* day offsets for which fetchBusyTimes was called
    tested,          \* number of candidates whose overlap test was run
    \* ---- the pure functions, applied one call at a time
    fn,              \* name of the function under call
    args,            \* its arguments
    ret,             \* its return value once fnPc = "returned"
    fnPc,            \* "off" | "called" | "returned"
    \* ---- POST /book (GoogleCalendarWebhook.js 455-634), one entry per request
    bookPc,          \* position of each request's handler
    body,            \* the request body as extracted (473-484)
    outcome,         \* the response sent, "none" before it
    calendar,        \* events held by the external calendar
    cachedCalendarClient, \* the module-level client cache (206)
    authorizations,  \* number of jwt.authorize() calls issued
    inserts,         \* per request, number of calendar.events.insert calls issued
    conflictAtInsert,\* per request, whether its interval was busy when insert was issued
    externals,       \* number of events other parties have added
    upstream,        \* per request, the upstream calls it has issued, in order
    responses,       \* per request, number of responses sent
    sinkError,       \* per request, why calendar.events.insert rejected, "none" if it did not
    \* ---- POST /availability (GoogleCalendarWebhook.js 362-449), one request
    availPc,         \* position of the handler
    availReq,        \* the request as extracted (369-371)
    availCached,     \* cachedCalendarClient as this request finds and leaves it
    availOutcome,    \* the response sent, "none" before it
    availCalls,      \* the upstream calls issued, in order
    availResponses,  \* number of responses sent
    availScan,       \* [date, days, day, found] of the running slot search
    \* ---- the launcher (main.js 159-184, 319-325), one process start
    launchPc,        \* "off" | "main" | "awaited" | "done"
    launch,          \* [file, exported, success]: launcher file, what require() yields
    servers          \* the servers listen() was called on, in order

scanVars == <<scanPc, now, startDate, daysToCheck, windowParams, maxSlots,
              slotAlignment, busyByDay, dayOffset, allSlots, fetched, tested>>

fnVars == <<fn, args, ret, fnPc>>

bookVars == <<bookPc, body, outcome, calendar, cachedCalendarClient, authorizations,
              inserts, conflictAtInsert, externals, upstream, responses, sinkError>>

availVars == <<availPc, availReq, availCached, availOutcome, availCalls,
               availResponses, availScan>>

launchVars == <<launchPc, launch, servers>>

vars == <<mode, scanVars, fnVars, bookVars, availVars, launchVars>>

\* the components at rest
ScanOff ==
    /\ scanPc = "off" /\ now = [min |-> 0, sub |-> 0] /\ startDate = 0
    /\ daysToCheck = 0 /\ windowParams = <<>> /\ maxSlots = 0 /\ slotAlignment = 0
    /\ busyByDay = <<>> /\ dayOffset = 0 /\ allSlots = <<>> /\ fetched = <<>>
    /\ tested = 0

LaunchOff == launchPc = "off" /\ launch = <<>> /\ servers = <<>>

FnOff == fn = "none" /\ args = <<>> /\ ret = <<>> /\ fnPc = "off"

BookOff ==
    /\ bookPc = <<>> /\ body = <<>> /\ outcome = <<>> /\ calendar = {}
    /\ cachedCalendarClient = FALSE /\ authorizations = 0 /\ inserts = <<>>
    /\ conflictAtInsert = <<>> /\ externals = 0
    /\ upstream = <<>> /\ responses = <<>> /\ sinkError = <<>>

AvailOff ==
    /\ availPc = "off" /\ availReq = <<>> /\ availCached = FALSE
    /\ availOutcome = "none" /\ availCalls = <<>> /\ availResponses = 0
    /\ availScan = <<>>

---------------------------------------------------------------------------
(* Calendar arithmetic *)

MinutesPerHour == 60
MinutesPerDay == 24 * MinutesPerHour

DayStart(d) == d * MinutesPerDay
DayOf(t) == t \div MinutesPerDay
MinuteOfHour(t) == t % MinutesPerHour

\* 0 = Monday ... 5 = Saturday, 6 = Sunday
Weekday(d) == d % 7
IsWeekend(d) == Weekday(d) \in {5, 6}

Iv(s, e) == [start |-> s, end |-> e]
ShiftIv(iv, by) == [start |-> iv.start + by, end |-> iv.end + by]
ShiftAll(ivs, by) == [i \in DOMAIN ivs |-> ShiftIv(ivs[i], by)]

\* x <= t and x < t for a whole-minute x and a clock value t = [min, sub]
AtOrBefore(x, t) == x <= t.min
CeilDiv(a, b) == -((-a) \div b)

Min(a, b) == IF a <= b THEN a ELSE b

---------------------------------------------------------------------------
(* Configuration defaults of src/GoogleCalendarWebhook.js *)

SLOT_DURATION_MINUTES == 60
SLOT_ALIGNMENT_MINUTES == 15
DEFAULT_WORKDAY_START == 9
DEFAULT_WORKDAY_END == 17
DEFAULT_MAX_SLOTS == 4

---------------------------------------------------------------------------
(* Bounds and input sets *)

MaxDays == 2

\* Fri, Sat, Sun, Mon as the first scanned date
StartDates == {4, 5, 6, 7}

\* busy lists as freebusy.query may answer them for one day, as minutes of
\* that day: empty; one event at the window start; two overlapping events
\* out of order; the morning blocked; a 1-minute event inside a slot
BusyChoices ==
    { <<>>,
      <<Iv(540, 570)>>,
      <<Iv(570, 615), Iv(550, 580)>>,
      <<Iv(540, 660)>>,
      <<Iv(601, 602)>> }

WindowChoices == { <<DEFAULT_WORKDAY_START, DEFAULT_WORKDAY_END>>, <<9, 11>> }
DurationChoices == { SLOT_DURATION_MINUTES, 30 }
AlignmentChoices == { SLOT_ALIGNMENT_MINUTES, 20 }
QuotaChoices == { DEFAULT_MAX_SLOTS, 1 }

\* the clock, as minute of the first scanned day: before the window, on the
\* window start, on a grid point, just past a grid point, off the grid,
\* at the end of the working day
NowChoices ==
    { [min |-> 480, sub |-> 0], [min |-> 540, sub |-> 0],
      [min |-> 555, sub |-> 0], [min |-> 555, sub |-> 1],
      [min |-> 562, sub |-> 0], [min |-> 1020, sub |-> 0] }

---------------------------------------------------------------------------
(* findAvailableSlotsMultiDay *)

\* variant: the window taken on startDate instead of checkDate
WindowStartOnStartDate(day, wp) == DayStart(startDate) + wp.start_hour * MinutesPerHour

\* checkDate.set({hour: start_hour, minute: 0, second: 0})
WindowStart(day, wp) == DayStart(day) + wp.start_hour * MinutesPerHour
WindowEnd(day, wp) == DayStart(day) + wp.end_hour * MinutesPerHour

\* fetchBusyTimes(calendar, calendarId, dateStr, dateStr, timezone)
fetchBusyTimes(off) == ShiftAll(busyByDay[off], DayStart(startDate + off))

\* let current = windowStart; if (current <= now) { ... }
FirstCurrent(windowStart, t, align) ==
    IF AtOrBefore(windowStart, t)
    THEN LET minutesFromNow == (t.min - windowStart) + t.sub
             alignedMinutes == CeilDiv(minutesFromNow, align) * align
         IN  windowStart + alignedMinutes
    ELSE windowStart

\* variant: only the slot's start is tested against the busy intervals
IsAvailableStartOnly(current, slotEnd, busyIntervals) ==
    ~ \E i \in DOMAIN busyIntervals :
          current >= busyIntervals[i].start /\ current < busyIntervals[i].end

\* !busyIntervals.some(busy => current < busy.end && slotEnd > busy.start)
IsAvailable(current, slotEnd, busyIntervals) ==
    ~ \E i \in DOMAIN busyIntervals :
          current < busyIntervals[i].end /\ slotEnd > busyIntervals[i].start

\* variant: a slot ending exactly at the window end is not generated
LoopGuardBeforeEnd(current, dur, windowEnd, room) ==
    current + dur < windowEnd /\ room > 0

\* while (current + duration <= windowEnd && allSlots.length < maxSlots)
LoopGuard(current, dur, windowEnd, room) ==
    current + dur <= windowEnd /\ room > 0

\* current = current.plus({ minutes: SLOT_ALIGNMENT_MINUTES })
NextCurrent(current, dur, align) == current + align

\* variant: the slot ends one alignment step after its start
MakeSlotOneStep(date, current, slotEnd) ==
    [date |-> date, start |-> current, end |-> current + slotAlignment]

\* the pushed slot object
MakeSlot(date, current, slotEnd) == [date |-> date, start |-> current, end |-> slotEnd]

\* the while loop of one day; room = maxSlots - allSlots.length
RECURSIVE SlotLoop(_, _, _, _, _, _, _)
SlotLoop(date, current, windowEnd, dur, busyIntervals, align, room) ==
    IF LoopGuard(current, dur, windowEnd, room)
    THEN LET slotEnd == current + dur
             isAvailable == IsAvailable(current, slotEnd, busyIntervals)
             rest == SlotLoop(date, NextCurrent(current, dur, align), windowEnd, dur,
                              busyIntervals, align,
                              IF isAvailable THEN room - 1 ELSE room)
         IN  [slots  |-> (IF isAvailable THEN <<MakeSlot(date, current, slotEnd)>>
                          ELSE <<>>) \o rest.slots,
              tested |-> 1 + rest.tested]
    ELSE [slots |-> <<>>, tested |-> 0]

\* variant: the day loop does not look at the quota
ForGuardNoQuota == dayOffset < daysToCheck

\* for (...; dayOffset < daysToCheck && allSlots.length < maxSlots; ...)
ForGuard == dayOffset < daysToCheck /\ Len(allSlots) < maxSlots

\* if (windowEnd <= now) continue;
WindowPast(off) == AtOrBefore(WindowEnd(startDate + off, windowParams), now)

InitScan ==
    /\ mode = "scan"
    /\ FnOff /\ BookOff /\ AvailOff /\ LaunchOff
    /\ scanPc = "loop"
    /\ startDate \in StartDates
    /\ \E n \in NowChoices :
           now = [min |-> DayStart(startDate) + n.min, sub |-> n.sub]
    /\ daysToCheck \in 1..MaxDays
    /\ \E w \in WindowChoices, d \in DurationChoices :
           windowParams = [start_hour |-> w[1], end_hour |-> w[2],
                           slot_duration_minutes |-> d]
    /\ maxSlots \in QuotaChoices
    /\ slotAlignment \in AlignmentChoices
    /\ busyByDay \in [0..(daysToCheck - 1) -> BusyChoices]
    /\ dayOffset = 0
    /\ allSlots = <<>>
    /\ fetched = <<>>
    /\ tested = 0

\* one iteration that skips a day whose window is over
ScanSkipDay ==
    /\ mode = "scan" /\ scanPc = "loop"
    /\ ForGuard
    /\ WindowPast(dayOffset)
    /\ dayOffset' = dayOffset + 1
    /\ UNCHANGED <<mode, scanPc, now, startDate, daysToCheck, windowParams, maxSlots,
                   slotAlignment, busyByDay, allSlots, fetched, tested>>
    /\ UNCHANGED <<fnVars, bookVars, availVars, launchVars>>

\* one iteration that fetches the day's busy times and generates its slots
ScanDay ==
    /\ mode = "scan" /\ scanPc = "loop"
    /\ ForGuard
    /\ ~WindowPast(dayOffset)
    /\ LET day == startDate + dayOffset
           r == SlotLoop(day,
                         FirstCurrent(WindowStart(day, windowParams), now, slotAlignment),
                         WindowEnd(day, windowParams),
                         windowParams.slot_duration_minutes,
                         fetchBusyTimes(dayOffset),
                         slotAlignment,
                         maxSlots - Len(allSlots))
       IN  /\ allSlots' = allSlots \o r.slots
           /\ tested' = tested + r.tested
    /\ fetched' = Append(fetched, dayOffset)
    /\ dayOffset' = dayOffset + 1
    /\ UNCHANGED <<mode, scanPc, now, startDate, daysToCheck, windowParams, maxSlots,
                   slotAlignment, busyByDay>>
    /\ UNCHANGED <<fnVars, bookVars, availVars, launchVars>>

\* return allSlots
ScanReturn ==
    /\ mode = "scan" /\ scanPc = "loop"
    /\ ~ForGuard
    /\ scanPc' = "done"
    /\ UNCHANGED <<mode, now, startDate, daysToCheck, windowParams, maxSlots,
                   slotAlignment, busyByDay, dayOffset, allSlots, fetched, tested>>
    /\ UNCHANGED <<fnVars, bookVars, availVars, launchVars>>

ScanNext == ScanSkipDay \/ ScanDay \/ ScanReturn

SpecScan == InitScan /\ [][ScanNext]_vars

---------------------------------------------------------------------------
(* Interval merges *)

\* stable insertion of x into a list sorted by start (Array.prototype.sort
\* with the comparator a.start - b.start keeps equal keys in input order)
RECURSIVE InsertByStart(_, _)
InsertByStart(x, sorted) ==
    IF sorted = <<>> THEN <<x>>
    ELSE IF x.start < Head(sorted).start THEN <<x>> \o sorted
    ELSE <<Head(sorted)>> \o InsertByStart(x, Tail(sorted))

\* variant: the list is merged in the order it was given
KeepOrder(list) == list

RECURSIVE SortByStart(_)
SortByStart(list) ==
    IF list = <<>> THEN <<>>
    ELSE InsertByStart(list[Len(list)], SortByStart(SubSeq(list, 1, Len(list) - 1)))

\* variant: contiguous intervals are not fused
FusesStrict(current, it) == it.start < current.end

\* if (it.start <= current.end)  -- overlap or contiguous
Fuses(current, it) == it.start <= current.end

\* variant: after a fusion the fused interval is pushed at once and the
\* following element starts afresh, so fusions do not cascade
RECURSIVE MergeFoldNoCascade(_, _, _)
MergeFoldNoCascade(sorted, i, current) ==
    IF i > Len(sorted) THEN <<current>>
    ELSE LET it == sorted[i]
         IN  IF Fuses(current, it)
             THEN <<[current EXCEPT !.end = IF it.end > @ THEN it.end ELSE @]>>
                  \o (IF i + 1 > Len(sorted) THEN <<>>
                      ELSE MergeFoldNoCascade(sorted, i + 2,
                                              Iv(sorted[i + 1].start, sorted[i + 1].end)))
             ELSE <<current>> \o MergeFoldNoCascade(sorted, i + 1, Iv(it.start, it.end))

\* the for loop of mergeIntervals from index i on, with the running interval
RECURSIVE MergeFold(_, _, _)
MergeFold(sorted, i, current) ==
    IF i > Len(sorted) THEN <<current>>
    ELSE LET it == sorted[i]
         IN  IF Fuses(current, it)
             THEN MergeFold(sorted, i + 1,
                            IF it.end > current.end
                            THEN [current EXCEPT !.end = it.end] ELSE current)
             ELSE <<current>> \o MergeFold(sorted, i + 1, Iv(it.start, it.end))

mergeIntervals(intervals) ==
    IF Len(intervals) = 0 THEN <<>>
    ELSE LET sorted == SortByStart(intervals)
         IN  MergeFold(sorted, 2, Iv(sorted[1].start, sorted[1].end))

\* An event endpoint as events.list gives it: kind "ok" with the parsed
\* minute t, "missing" (no dateTime and no date) or "bad" (unparsable).
Ok(t) == [kind |-> "ok", t |-> t]
MissingTime == [kind |-> "missing", t |-> 0]
BadTime == [kind |-> "bad", t |-> 0]
Event(s, e) == [start |-> s, end |-> e]
ShiftEvent(ev, by) ==
    Event([ev.start EXCEPT !.t = @ + by], [ev.end EXCEPT !.t = @ + by])
ShiftEvents(evs, by) == [i \in DOMAIN evs |-> ShiftEvent(evs[i], by)]

\* the .map(...) of mergeBusyIntervals: null for a dropped event
EventUsable(ev) ==
    /\ ev.start.kind # "missing" /\ ev.end.kind # "missing"
    /\ ev.start.kind = "ok" /\ ev.end.kind = "ok"

\* An invalid luxon Interval: a truthy object whose start and end getters
\* give null, which JavaScript arithmetic and relational operators read as 0
\* (every real instant is a positive number of milliseconds).
InvalidInterval == [start |-> 0, end |-> 0, invalid |-> TRUE]
IsValidInterval(iv) == "invalid" \notin DOMAIN iv

\* Interval.fromDateTimes(start, end) on two valid DateTimes: the interval,
\* empty when end = start, or an invalid Interval when end < start
fromDateTimes(start, end) ==
    IF end < start THEN InvalidInterval ELSE Iv(start, end)

\* variant: a pair with end <= start is mapped to null and filtered out
RECURSIVE EventsToIntervalsChecked(_)
EventsToIntervalsChecked(events) ==
    IF events = <<>> THEN <<>>
    ELSE (IF EventUsable(Head(events)) /\ Head(events).start.t < Head(events).end.t
          THEN <<Iv(Head(events).start.t, Head(events).end.t)>> ELSE <<>>)
         \o EventsToIntervalsChecked(Tail(events))

RECURSIVE EventsToIntervals(_)
EventsToIntervals(events) ==
    IF events = <<>> THEN <<>>
    ELSE (IF EventUsable(Head(events))
          THEN <<fromDateTimes(Head(events).start.t, Head(events).end.t)>> ELSE <<>>)
         \o EventsToIntervals(Tail(events))

\* cur.overlaps(next) || cur.abutsStart(next) || next.start <= cur.end
\* overlaps and abutsStart read the private fields, undefined on an invalid
\* Interval, so they are false there; the last test goes through the getters
BusyFuses(cur, next) ==
    \/ /\ IsValidInterval(cur) /\ IsValidInterval(next)
       /\ cur.end > next.start /\ cur.start < next.end
    \/ /\ IsValidInterval(cur) /\ IsValidInterval(next)
       /\ cur.end = next.start
    \/ next.start <= cur.end

\* Interval.fromDateTimes(cur.start, ...) inside the loop throws
\* InvalidArgumentError when cur.start is null
FusionThrows(cur, next) == BusyFuses(cur, next) /\ ~IsValidInterval(cur)

RECURSIVE BusyFoldThrows(_, _, _)
BusyFoldThrows(intervals, i, cur) ==
    IF i > Len(intervals) THEN FALSE
    ELSE LET next == intervals[i]
         IN  IF BusyFuses(cur, next)
             THEN \/ FusionThrows(cur, next)
                  \/ BusyFoldThrows(intervals, i + 1,
                                    Iv(cur.start, IF cur.end > next.end THEN cur.end ELSE next.end))
             ELSE BusyFoldThrows(intervals, i + 1, next)

RECURSIVE BusyFold(_, _, _)
BusyFold(intervals, i, cur) ==
    IF i > Len(intervals) THEN <<cur>>
    ELSE LET next == intervals[i]
         IN  IF BusyFuses(cur, next)
             THEN BusyFold(intervals, i + 1,
                           Iv(cur.start, IF cur.end > next.end THEN cur.end ELSE next.end))
             ELSE <<cur>> \o BusyFold(intervals, i + 1, next)

mergeBusyIntervals(events) ==
    LET intervals == SortByStart(EventsToIntervals(events))
    IN  IF Len(intervals) = 0 THEN <<>>
        ELSE BusyFold(intervals, 2, intervals[1])

mergeBusyIntervalsThrows(events) ==
    LET intervals == SortByStart(EventsToIntervals(events))
    IN  Len(intervals) # 0 /\ BusyFoldThrows(intervals, 2, intervals[1])

\* fetchBusyIntervals of part_002 on the busy pairs of the freebusy answer:
\* each endpoint parsed with DateTime.fromISO, then mergeIntervals
RECURSIVE ParsePairs(_)
ParsePairs(busy) ==
    IF busy = <<>> THEN <<>>
    ELSE <<Iv(Head(busy).start.t, Head(busy).end.t)>> \o ParsePairs(Tail(busy))

fetchBusyIntervals(busy) == mergeIntervals(ParsePairs(busy))

---------------------------------------------------------------------------
(* computeFreeSlotsLuxon and roundUpToAlignment (grid filtering) *)

\* a % b of JavaScript for a >= 0: the remainder takes the sign of the dividend
JsRem(a, b) == a % (IF b < 0 THEN 0 - b ELSE b)

roundUpToAlignment(dt, alignmentMinutes) ==
    LET minutes == MinuteOfHour(dt.min)
        remainder == JsRem(minutes, alignmentMinutes)
    IN  IF remainder = 0 /\ dt.sub = 0 THEN dt.min
        ELSE dt.min + (alignmentMinutes - remainder)

\* candidate < iv.end && iv.start < candidateEnd, for some iv
Conflict(candidate, candidateEnd, busyIntervals) ==
    \E i \in DOMAIN busyIntervals :
        candidate < busyIntervals[i].end /\ busyIntervals[i].start < candidateEnd

\* variant: back-to-back slots, advancing by the slot duration
LuxonStepByDuration(candidate, slotDurationMinutes, alignmentMinutes) ==
    candidate + slotDurationMinutes

\* candidate = candidate.plus({ minutes: alignmentMinutes })
LuxonStep(candidate, slotDurationMinutes, alignmentMinutes) ==
    candidate + alignmentMinutes

LuxonSlot(candidate, candidateEnd) == [start |-> candidate, end |-> candidateEnd]

RECURSIVE LuxonLoop(_, _, _, _, _)
LuxonLoop(candidate, windowEnd, busyIntervals, slotDurationMinutes, alignmentMinutes) ==
    IF candidate + slotDurationMinutes <= windowEnd
    THEN LET candidateEnd == candidate + slotDurationMinutes
         IN  (IF ~Conflict(candidate, candidateEnd, busyIntervals)
              THEN <<LuxonSlot(candidate, candidateEnd)>> ELSE <<>>)
             \o LuxonLoop(LuxonStep(candidate, slotDurationMinutes, alignmentMinutes),
                          windowEnd, busyIntervals, slotDurationMinutes, alignmentMinutes)
    ELSE <<>>

computeFreeSlotsLuxon(windowStartDT, windowEndDT, busyIntervals, slotDurationMinutes, alignmentMinutes) ==
    LuxonLoop(roundUpToAlignment(windowStartDT, alignmentMinutes), windowEndDT,
              busyIntervals, slotDurationMinutes, alignmentMinutes)

---------------------------------------------------------------------------
(* Slot rendering and the event a booking builds from it *)

\* A luxon DateTime: an instant (minutes on the UTC time line) viewed in a zone
\* with the given UTC offset in minutes.  An ISO 8601 string with offset: the
\* wall-clock reading and the offset written after it.
DateTimeIn(ts, offset) == [ts |-> ts, offset |-> offset]
toUTC(dt) == [dt EXCEPT !.offset = 0]
toISO(dt) == [wall |-> dt.ts + dt.offset, offset |-> dt.offset]

\* DateTime.fromISO(`${date}T${time}:00`, { zone }): a wall-clock reading
\* without offset, taken in the zone
fromWallClock(wall, offset) == DateTimeIn(wall - offset, offset)

\* the instant an RFC 3339 dateTime denotes to the events.insert API
InstantOf(iso) == iso.wall - iso.offset

\* allSlots.push({ start: current.toISO(), end: slotEnd.toISO(), ... })
RenderSlot(current, slotEnd) == [start |-> toISO(current), end |-> toISO(slotEnd)]

\* slots.push({ start_iso: slotStartUTC.toISO(), end_iso: slotEndUTC.toISO() })
RenderSlotUTC(slotStartEastern, slotEndEastern) ==
    [start |-> toISO(toUTC(slotStartEastern)), end |-> toISO(toUTC(slotEndEastern))]

None == [kind |-> "missing"]
Present(x) == x # None

\* variant: the ISO strings are read as wall-clock time of the calendar zone
EventFromISOAsWallClock(startISO, endISO, timezone) ==
    [start |-> [dateTime |-> toISO(fromWallClock(startISO.wall, timezone))],
     end |-> [dateTime |-> toISO(fromWallClock(endISO.wall, timezone))]]

\* event = { start: { dateTime: startISO }, end: { dateTime: endISO } }
EventFromISO(startISO, endISO, timezone) ==
    [start |-> [dateTime |-> startISO], end |-> [dateTime |-> endISO]]

\* the event /book builds: from (start, end) when both are given, otherwise
\* from date, start_time and end_time read in the calendar's time zone
BuildEvent(bookingData, timezone) ==
    IF Present(bookingData.start) /\ Present(bookingData.end)
    THEN EventFromISO(bookingData.start, bookingData.end, timezone)
    ELSE [start |-> [dateTime |-> toISO(fromWallClock(bookingData.start_time, timezone)),
                     timeZone |-> timezone],
          end |-> [dateTime |-> toISO(fromWallClock(bookingData.end_time, timezone)),
                   timeZone |-> timezone]]

\* what the caller sends after reading a rendered slot: its start and end
\* verbatim, or the wall-clock date and times it shows
BookingOf(rendered, style) ==
    IF style = "iso"
    THEN [start |-> rendered.start, end |-> rendered.end,
          start_time |-> None, end_time |-> None]
    ELSE [start |-> None, end |-> None,
          start_time |-> rendered.start.wall, end_time |-> rendered.end.wall]

\* the [start, end) instants of the event sent to calendar.events.insert
bookRenderedSlot(slot, renderer, display, style, timezone) ==
    LET rendered == IF renderer = "toISO"
                    THEN RenderSlot(DateTimeIn(slot.start, display),
                                    DateTimeIn(slot.end, display))
                    ELSE RenderSlotUTC(DateTimeIn(slot.start, display),
                                       DateTimeIn(slot.end, display))
        event == BuildEvent(BookingOf(rendered, style), timezone)
    IN  <<Iv(InstantOf(event.start.dateTime), InstantOf(event.end.dateTime))>>

---------------------------------------------------------------------------
(* Request parameters: extractWindowParams and the names get_calendar_slots takes *)

\* a field of a JavaScript object: undefined, or a number
Absent == [present |-> FALSE, value |-> 0]
Given(v) == [present |-> TRUE, value |-> v]

\* x ?? d: d only when x is undefined or null
Nullish(x, d) == IF x.present THEN x.value ELSE d

\* Number(x) || d: Number(undefined) is NaN, and NaN and 0 are falsy
NumberOr(x, d) == IF x.present /\ x.value # 0 THEN x.value ELSE d

\* extractWindowParams, lines 183-202: body.requested_window when there is
\* one, otherwise the query string
extractWindowParams(reqBody, query) ==
    IF reqBody.requested_window.present
    THEN [start_hour |-> Nullish(reqBody.requested_window.start_hour, DEFAULT_WORKDAY_START),
          end_hour |-> Nullish(reqBody.requested_window.end_hour, DEFAULT_WORKDAY_END),
          slot_duration_minutes |->
              Nullish(reqBody.requested_window.slot_duration_minutes, SLOT_DURATION_MINUTES)]
    ELSE [start_hour |-> NumberOr(query.start_hour, DEFAULT_WORKDAY_START),
          end_hour |-> NumberOr(query.end_hour, DEFAULT_WORKDAY_END),
          slot_duration_minutes |-> NumberOr(query.slot_duration, SLOT_DURATION_MINUTES)]

\* part_002, line 298: Number(data.slotDurationMinutes) || SLOT_DURATION_MINUTES
slotDurationOf(data) == NumberOr(data.slotDurationMinutes, SLOT_DURATION_MINUTES)

\* part_002, line 299: Number(data.alignmentMinutes) || SLOT_ALIGNMENT_MINUTES
alignmentOf(data) == NumberOr(data.alignmentMinutes, SLOT_ALIGNMENT_MINUTES)

DEFAULT_REQUIRED_FREE_MINUTES == 30

\* a destructured parameter with a default value: the default replaces undefined
DefaultParam(x, d) == IF x.present THEN x ELSE Given(d)

\* a || b on two fields: a when it is truthy
OrElse(a, b) == IF a.present /\ a.value # 0 THEN a ELSE b

\* the zone names are counted: 1 is DEFAULT_TIMEZONE, 2 another zone
DEFAULT_TIMEZONE == 1

\* get_calendar_slots, lines 338-357: the four values it goes on with
used_slotMinutes(p) ==
    OrElse(OrElse(DefaultParam(p.slotDurationMinutes, DEFAULT_REQUIRED_FREE_MINUTES),
                  p.slot_duration_minutes),
           Given(DEFAULT_REQUIRED_FREE_MINUTES)).value
used_tz(p) ==
    OrElse(OrElse(DefaultParam(p.timezone, DEFAULT_TIMEZONE), p.user_timezone),
           Given(DEFAULT_TIMEZONE)).value
used_days(p) ==
    OrElse(OrElse(DefaultParam(p.daysToCheck, 1), p.days_to_check), Given(1)).value
used_requested(p) == OrElse(p.requestedDate, p.requested_date)

slotParams(p) ==
    [requested |-> used_requested(p), slotMinutes |-> used_slotMinutes(p), days |-> used_days(p),
     tz |-> used_tz(p)]

NoParams ==
    [requestedDate |-> Absent, requested_date |-> Absent,
     slotDurationMinutes |-> Absent, slot_duration_minutes |-> Absent,
     daysToCheck |-> Absent, days_to_check |-> Absent,
     timezone |-> Absent, user_timezone |-> Absent]

\* the same four values under the camelCase names, or under the snake_case names
CamelCall(v) ==
    [NoParams EXCEPT !.requestedDate = Given(v.date), !.slotDurationMinutes = Given(v.slot),
                     !.daysToCheck = Given(v.days), !.timezone = Given(v.zone)]
SnakeCall(v) ==
    [NoParams EXCEPT !.requested_date = Given(v.date), !.slot_duration_minutes = Given(v.slot),
                     !.days_to_check = Given(v.days), !.user_timezone = Given(v.zone)]

---------------------------------------------------------------------------
(* computeFreeSlots (gap walking) and get_calendar_slots *)

\* while (availStart.plus({minutes}) <= availEnd) { push; availStart += minutes }
RECURSIVE FillGap(_, _, _)
FillGap(availStart, availEnd, slotMinutes) ==
    IF availStart + slotMinutes <= availEnd
    THEN <<[start |-> availStart, end |-> availStart + slotMinutes]>>
         \o FillGap(availStart + slotMinutes, availEnd, slotMinutes)
    ELSE <<>>

\* the for loop over busyIntervals from index i on, then the tail loop
RECURSIVE GapWalk(_, _, _, _, _)
GapWalk(busyIntervals, i, cursor, window, slotMinutes) ==
    IF i > Len(busyIntervals)
    THEN FillGap(cursor, window.end, slotMinutes)
    ELSE LET busy == busyIntervals[i]
         IN  IF busy.end <= window.start
             THEN GapWalk(busyIntervals, i + 1, cursor, window, slotMinutes)
             ELSE IF busy.start >= window.end
             THEN FillGap(cursor, window.end, slotMinutes)
             ELSE (IF busy.start > cursor
                   THEN FillGap(cursor, busy.start, slotMinutes) ELSE <<>>)
                  \o GapWalk(busyIntervals, i + 1,
                             IF busy.end > cursor THEN busy.end ELSE cursor,
                             window, slotMinutes)

computeFreeSlots(busyIntervals, windowInterval, slotMinutes) ==
    GapWalk(busyIntervals, 1, windowInterval.start, windowInterval, slotMinutes)

\* get_calendar_slots (calendar-operations.js 338-394); t is the clock and
\* eventsByDay[d] what events.list answers for day offset d, as minutes of
\* that day; requested is Ok(day), MissingTime or BadTime.  The result is
\* slotsByDay.
GcsFirstDay(requested, t) ==
    LET today == DayOf(t.min)
        parsed == IF requested.kind = "ok" THEN requested.t ELSE today
    IN  IF parsed < today THEN today ELSE parsed

RECURSIVE GcsDays(_, _, _, _, _)
GcsDays(first, d, days, slotMinutes, eventsByDay) ==
    IF d < days
    THEN LET day == first + d
             dayStart == DayStart(day) + 8 * MinutesPerHour
             dayEnd == DayStart(day) + 18 * MinutesPerHour
             busy == mergeBusyIntervals(ShiftEvents(eventsByDay[d], DayStart(day)))
         IN  <<[date |-> day,
                slots |-> computeFreeSlots(busy, Iv(dayStart, dayEnd), slotMinutes)]>>
             \o GcsDays(first, d + 1, days, slotMinutes, eventsByDay)
    ELSE <<>>

get_calendar_slots(requested, days, slotMinutes, t, eventsByDay) ==
    GcsDays(GcsFirstDay(requested, t), 0, days, slotMinutes, eventsByDay)

---------------------------------------------------------------------------
(* The slot loop of POST /availability in part_001 (main.js) *)

\* if (slotStartEastern <= nowEastern) continue;
PastSlot(slotStart, t) == AtOrBefore(slotStart, t)

\* events.some(...) with unparsable events ignored
EventConflict(slotStart, slotEnd, events) ==
    \E i \in DOMAIN events :
        /\ events[i].start.kind = "ok" /\ events[i].end.kind = "ok"
        /\ slotStart < events[i].end.t /\ slotEnd > events[i].start.t

RECURSIVE AvailLoop(_, _, _, _, _, _, _)
AvailLoop(i, slotCount, windowStart, windowEnd, slotDurationMinutes, events, t) ==
    IF i >= slotCount THEN <<>>
    ELSE LET slotStart == windowStart + i * slotDurationMinutes
             slotEnd == slotStart + slotDurationMinutes
             rest == AvailLoop(i + 1, slotCount, windowStart, windowEnd,
                               slotDurationMinutes, events, t)
         IN  IF slotStart >= windowEnd THEN <<>>
             ELSE IF slotEnd > windowEnd THEN rest
             ELSE IF PastSlot(slotStart, t) THEN rest
             ELSE IF EventConflict(slotStart, slotEnd, events) THEN rest
             ELSE <<[start_iso |-> slotStart, end_iso |-> slotEnd, available |-> TRUE]>>
                  \o rest

availabilitySlots(day, startHour, endHour, slotDurationMinutes, events, t) ==
    LET totalMinutesWindow == (endHour - startHour) * MinutesPerHour
        slotCount == CeilDiv(totalMinutesWindow, slotDurationMinutes)
    IN  AvailLoop(0, slotCount, DayStart(day) + startHour * MinutesPerHour,
                  DayStart(day) + endHour * MinutesPerHour,
                  slotDurationMinutes, events, t)

---------------------------------------------------------------------------
(* GoogleCalendarWebhook.checkAvailability of src/src/GoogleCalendarWebhook.js *)

CHECK_SLOT_MINUTES == 30
CHECK_MAX_SLOTS == 4
CHECK_START_HOUR == 8
CHECK_END_HOUR == 17

\* busyTimes.some(...), lines 58-61
busyAt(currentTime, slotEnd, busyTimes) ==
    \E i \in DOMAIN busyTimes :
        \/ currentTime >= busyTimes[i].start /\ currentTime < busyTimes[i].end
        \/ slotEnd > busyTimes[i].start /\ slotEnd <= busyTimes[i].end

\* while (currentTime < endTime && availableSlots.length < 4), lines 56-71
RECURSIVE CheckLoop(_, _, _, _)
CheckLoop(currentTime, endTime, busyTimes, availableSlots) ==
    IF currentTime < endTime /\ Len(availableSlots) < CHECK_MAX_SLOTS
    THEN LET slotEnd == currentTime + CHECK_SLOT_MINUTES
         IN  CheckLoop(slotEnd, endTime, busyTimes,
                       IF ~busyAt(currentTime, slotEnd, busyTimes)
                       THEN Append(availableSlots, [start |-> currentTime, end |-> slotEnd])
                       ELSE availableSlots)
    ELSE availableSlots

\* the slots found, before they are written as slot1_start ... slot4_end
checkAvailability(day, busyTimes) ==
    CheckLoop(DayStart(day) + CHECK_START_HOUR * MinutesPerHour,
              DayStart(day) + CHECK_END_HOUR * MinutesPerHour, busyTimes, <<>>)

---------------------------------------------------------------------------
(* The pure functions under call *)

MaxBusy == 2
MaxIntervals == 3

SeqsUpTo(S, n) == UNION { [1..k -> S] : k \in 0..n }

IntervalPoints == {540, 550, 570, 600, 615}
IntervalPool == { Iv(s, e) : <<s, e>> \in { p \in IntervalPoints \X IntervalPoints : p[1] < p[2] } }
\* pairs whose end is before, or equal to, their start
ReversedPairs ==
    { Event(Ok(600), Ok(550)), Event(Ok(615), Ok(540)), Event(Ok(570), Ok(570)) }
EventPool ==
    { Event(Ok(iv.start), Ok(iv.end)) : iv \in IntervalPool }
    \cup { Event(Ok(540), MissingTime), Event(BadTime, Ok(570)) }
    \cup ReversedPairs

\* busy pairs of a freebusy answer: RFC 3339 timestamps, so always parsable
FreeBusyPool ==
    { Event(Ok(iv.start), Ok(iv.end)) : iv \in IntervalPool } \cup ReversedPairs

BusyLists == SeqsUpTo(IntervalPool, MaxBusy)

\* window starts of computeFreeSlotsLuxon: on the hour, ten past, five past
\* the quarter, and thirty seconds past the hour
LuxonStarts ==
    { [min |-> 540, sub |-> 0], [min |-> 550, sub |-> 0],
      [min |-> 560, sub |-> 0], [min |-> 540, sub |-> 1] }
LuxonEnds == {660, 690}
LuxonDurations == {20, 30, SLOT_DURATION_MINUTES}
LuxonAlignments == {SLOT_ALIGNMENT_MINUTES, 20, 45}

\* the day the pure functions and the bookings take as today: the Friday
Today == CHOOSE d \in StartDates : \A e \in StartDates : d <= e
RequestedDates == { MissingTime, BadTime, Ok(Today - 1), Ok(Today), Ok(Today + 1) }

\* the date found by extractDateFromRequest: absent, a string that is no
\* date, or a date given by its day index
NoDate == [kind |-> "none", day |-> 0]
MalformedDate == [kind |-> "malformed", day |-> 0]
DateOn(d) == [kind |-> "date", day |-> d]

\* isRetellExampleDate: one of the listed example dates, all long past, or
\* any date more than 30 days before now; an unparsable string gives a NaN
\* difference and is no example
isRetellExampleDate(dateStr, today) ==
    dateStr.kind = "date" /\ today - dateStr.day > 30

\* variant: a date before today is scanned as given
resolveIntendedDateKeepPast(dateStr, today) ==
    IF dateStr.kind = "date"
    THEN [date |-> dateStr.day, wasExample |-> FALSE, checkMultipleDays |-> FALSE]
    ELSE [date |-> today, wasExample |-> TRUE, checkMultipleDays |-> TRUE]

\* resolveIntendedDate, lines 68-129
resolveIntendedDate(dateStr, today) ==
    IF dateStr.kind = "none" \/ isRetellExampleDate(dateStr, today)
    THEN [date |-> today, wasExample |-> TRUE, checkMultipleDays |-> TRUE]
    ELSE IF dateStr.kind = "malformed"
    THEN [date |-> today, wasExample |-> FALSE, checkMultipleDays |-> FALSE]
    ELSE IF dateStr.day < today
    THEN [date |-> today, wasExample |-> FALSE, checkMultipleDays |-> TRUE]
    ELSE [date |-> dateStr.day, wasExample |-> FALSE, checkMultipleDays |-> FALSE]

\* the /availability router of part_008, lines 13-38: the date it hands to
\* get_calendar_slots ("2024-05-15", like no date, gives today)
coerceRequested(dateStr, today) ==
    IF dateStr.kind = "none" THEN today
    ELSE IF dateStr.kind = "malformed" THEN today
    ELSE IF dateStr.day < today THEN today
    ELSE dateStr.day

DateChoices ==
    { NoDate, MalformedDate, DateOn(Today - 40), DateOn(Today - 1), DateOn(Today),
      DateOn(Today + 1) }
EventChoices ==
    { <<>>,
      <<Event(Ok(540), Ok(570))>>,
      <<Event(Ok(570), Ok(615)), Event(Ok(550), Ok(580)), Event(Ok(600), MissingTime)>> }

\* the clock at minute n.min of day Today
ClockOn(n) == [min |-> DayStart(Today) + n.min, sub |-> n.sub]

InitLuxon ==
    \E ws \in LuxonStarts, we \in LuxonEnds, b \in BusyLists,
       d \in LuxonDurations, a \in LuxonAlignments :
        /\ fn = "computeFreeSlotsLuxon"
        /\ args = [windowStart |-> ws, windowEnd |-> we, busy |-> b,
                   duration |-> d, alignment |-> a]

\* computeFreeSlots is given the merged list, as get_calendar_slots gives it
InitComputeFreeSlots ==
    \E ws \in LuxonStarts, we \in LuxonEnds, b \in BusyLists, d \in LuxonDurations :
        /\ fn = "computeFreeSlots"
        /\ args = [busy |-> mergeIntervals(b), window |-> Iv(ws.min, we),
                   duration |-> d]

InitMergeIntervals ==
    \E l \in SeqsUpTo(IntervalPool, MaxIntervals) :
        fn = "mergeIntervals" /\ args = [intervals |-> l]

InitMergeBusyIntervals ==
    \E l \in SeqsUpTo(EventPool, MaxIntervals) :
        fn = "mergeBusyIntervals" /\ args = [events |-> l]

InitFetchBusyIntervals ==
    \E l \in SeqsUpTo(FreeBusyPool, MaxBusy) :
        fn = "fetchBusyIntervals" /\ args = [busy |-> l]

\* UTC offsets, in minutes, of the zones a slot is shown in and of the
\* calendar's zone: New York (winter), UTC, Kolkata
ZoneOffsets == {0 - 300, 0, 330}

InitBookRenderedSlot ==
    \E s \in IntervalPool, r \in {"toISO", "toUTC"}, d \in ZoneOffsets,
       st \in {"iso", "fields"}, z \in ZoneOffsets :
        /\ fn = "bookRenderedSlot"
        /\ args = [slot |-> ShiftIv(s, DayStart(Today)), renderer |-> r,
                   display |-> d, style |-> st, timezone |-> z]

\* hours and durations a request may carry, 0 among them
HourValues == {Absent, Given(0), Given(10)}
DurationValues == {Absent, Given(0), Given(30)}

InitExtractWindowParams ==
    \E hasWindow \in BOOLEAN, ws, qs \in HourValues, we, qe \in HourValues,
       wd, qd \in DurationValues :
        /\ fn = "extractWindowParams"
        /\ args = [body |-> [requested_window |->
                                [present |-> hasWindow, start_hour |-> ws,
                                 end_hour |-> we, slot_duration_minutes |-> wd]],
                   query |-> [start_hour |-> qs, end_hour |-> qe, slot_duration |-> qd]]
        /\ (~hasWindow => (ws = Absent /\ we = Absent /\ wd = Absent))

\* ---- request authentication ----
\* process.env as the middleware reads it; an unset variable is the empty string
NoToken == ""
Env(allow, token) == [ALLOW_UNAUTH_PARSE |-> allow, SECRET_TOKEN |-> token]

\* an Authorization header as scheme and credentials; NoHeader is a request without one
Header(scheme, credentials) == [scheme |-> scheme, credentials |-> credentials]
NoHeader == Header("", "")
HeaderText(h) == h.scheme \o h.credentials

\* src/middleware/requireAuth.js: "next" hands the request to the route handler
requireAuth(env, authHeader) ==
    IF env.ALLOW_UNAUTH_PARSE = "true" THEN "next"
    ELSE IF env.SECRET_TOKEN = NoToken THEN "next"
    ELSE IF HeaderText(authHeader) = "Bearer " \o env.SECRET_TOKEN THEN "next"
    ELSE "401"

\* src/GoogleCalendarWebhook.js requireAuth: auth.replace(/^Bearer\s+/i, '') strips the
\* scheme in any letter case and leaves every other header as it is
StripBearer(h) == IF h.scheme \in {"Bearer ", "bearer "} THEN h.credentials ELSE HeaderText(h)
requireAuthApp(env, authHeader) ==
    IF env.SECRET_TOKEN = NoToken THEN "next"
    ELSE IF StripBearer(authHeader) # env.SECRET_TOKEN THEN "401"
    ELSE "next"

\* src/routes/routes_parse.js: the parse routes replace the middleware by a no-op
\* when ALLOW_UNAUTH_PARSE is 'true'
parseAuth(env, authHeader) ==
    IF env.ALLOW_UNAUTH_PARSE = "true" THEN "next" ELSE requireAuth(env, authHeader)

ParseRoutes == {"/parse-name", "/parse-provider"}
GuardedRoutes == {"/availability", "/slots", "/book"}
\* the middleware each route of the router (src/routes) and of the application
\* (src/GoogleCalendarWebhook.js) is registered with
routeAuth(app, route, env, authHeader) ==
    IF app = "GoogleCalendarWebhook" THEN requireAuthApp(env, authHeader)
    ELSE IF route \in ParseRoutes THEN parseAuth(env, authHeader)
    ELSE requireAuth(env, authHeader)

Secret == "s3cret"
HeaderChoices ==
    {NoHeader, Header("Bearer ", Secret), Header("Bearer ", "other"),
     Header("bearer ", Secret), Header("", Secret), Header("Basic ", Secret)}
RouteChoices ==
    {<<"routes", r>> : r \in GuardedRoutes \cup ParseRoutes}
        \cup {<<"GoogleCalendarWebhook", r>> : r \in {"/availability", "/book"}}

InitRequireAuth ==
    \E rt \in RouteChoices, allow \in {"true", "false", ""}, token \in {NoToken, Secret},
       h \in HeaderChoices :
        /\ fn = "requireAuth"
        /\ args = [app |-> rt[1], route |-> rt[2], env |-> Env(allow, token), header |-> h]

\* events of this morning for checkAvailability: whole
\* slots, parts of slots, and events lying inside one slot
CheckPoints == { DayStart(Today) + m : m \in {480, 490, 500, 510, 540} }
CheckBusyLists ==
    SeqsUpTo({ Iv(p[1], p[2]) : p \in { q \in CheckPoints \X CheckPoints : q[1] < q[2] } },
             MaxBusy)

InitCheckAvailability ==
    \E b \in CheckBusyLists :
        /\ fn = "checkAvailability"
        /\ args = [day |-> Today, busy |-> b]

\* the two generators on one window, one merged busy list and one duration
InitGenerators ==
    \E ws \in LuxonStarts, we \in LuxonEnds, b \in BusyLists, d \in LuxonDurations :
        /\ fn = "generators"
        /\ args = [busy |-> mergeIntervals(b), windowStart |-> ws, windowEnd |-> we,
                   duration |-> d]

InitSlotDuration ==
    \E d \in DurationValues :
        fn = "slotDuration" /\ args = [data |-> [slotDurationMinutes |-> d]]

InitSlotParams ==
    \E style \in {"camelCase", "snake_case"}, d \in {Today, Today + 1},
       s \in {15, DEFAULT_REQUIRED_FREE_MINUTES, 45}, k \in 1..MaxDays, z \in {1, 2} :
        /\ fn = "slotParams"
        /\ args = [style |-> style, values |-> [date |-> d, slot |-> s, days |-> k, zone |-> z]]

InitCoerceRequested ==
    \E d \in DateChoices : fn = "coerceRequested" /\ args = [requested |-> d]

InitAvailability ==
    \E w \in WindowChoices, d \in LuxonDurations, e \in EventChoices, n \in NowChoices :
        /\ fn = "availability"
        /\ args = [day |-> Today, startHour |-> w[1], endHour |-> w[2],
                   duration |-> d, events |-> ShiftEvents(e, DayStart(Today)),
                   now |-> ClockOn(n)]

InitGetCalendarSlots ==
    \E r \in RequestedDates, k \in 1..MaxDays, d \in DurationChoices,
       ev \in [0..(MaxDays - 1) -> EventChoices], n \in NowChoices :
        /\ fn = "get_calendar_slots"
        /\ args = [requested |-> r, days |-> k, duration |-> d, events |-> ev,
                   now |-> ClockOn(n)]

InitFn ==
    /\ mode = "fn"
    /\ ScanOff /\ BookOff /\ AvailOff /\ LaunchOff
    /\ \/ InitLuxon \/ InitComputeFreeSlots \/ InitMergeIntervals
       \/ InitMergeBusyIntervals \/ InitAvailability \/ InitGetCalendarSlots
       \/ InitFetchBusyIntervals \/ InitBookRenderedSlot
       \/ InitExtractWindowParams \/ InitSlotDuration \/ InitSlotParams
       \/ InitCoerceRequested \/ InitRequireAuth \/ InitCheckAvailability
       \/ InitGenerators
    /\ ret = <<>>
    /\ fnPc = "called"

Returns(name, value) ==
    /\ mode = "fn" /\ fnPc = "called" /\ fn = name
    /\ ret' = value
    /\ fnPc' = "returned"
    /\ UNCHANGED <<mode, launchVars, fn, args, scanVars, bookVars, availVars>>

CallLuxon ==
    Returns("computeFreeSlotsLuxon",
            computeFreeSlotsLuxon(args.windowStart, args.windowEnd, args.busy,
                                  args.duration, args.alignment))

CallComputeFreeSlots ==
    Returns("computeFreeSlots", computeFreeSlots(args.busy, args.window, args.duration))

CallMergeIntervals == Returns("mergeIntervals", mergeIntervals(args.intervals))

\* the call ends by an exception instead of a return value
Throws(name) ==
    /\ mode = "fn" /\ fnPc = "called" /\ fn = name
    /\ fnPc' = "threw"
    /\ UNCHANGED <<mode, launchVars, fn, args, ret, scanVars, bookVars, availVars>>

CallMergeBusyIntervals ==
    IF fn = "mergeBusyIntervals" /\ mergeBusyIntervalsThrows(args.events)
    THEN Throws("mergeBusyIntervals")
    ELSE Returns("mergeBusyIntervals", mergeBusyIntervals(args.events))

CallFetchBusyIntervals == Returns("fetchBusyIntervals", fetchBusyIntervals(args.busy))

CallExtractWindowParams ==
    Returns("extractWindowParams", <<extractWindowParams(args.body, args.query)>>)

CallSlotDuration == Returns("slotDuration", <<slotDurationOf(args.data)>>)

CallSlotParams ==
    Returns("slotParams",
            <<slotParams(IF args.style = "camelCase" THEN CamelCall(args.values)
                         ELSE SnakeCall(args.values))>>)

CallCoerceRequested ==
    Returns("coerceRequested", <<coerceRequested(args.requested, Today)>>)

CallCheckAvailability ==
    Returns("checkAvailability", checkAvailability(args.day, args.busy))

\* both generators called with the same arguments, the alignment being the duration
CallGenerators ==
    Returns("generators",
            <<computeFreeSlots(args.busy, Iv(args.windowStart.min, args.windowEnd),
                               args.duration),
              computeFreeSlotsLuxon(args.windowStart, args.windowEnd, args.busy,
                                    args.duration, args.duration)>>)

CallRequireAuth ==
    Returns("requireAuth", <<routeAuth(args.app, args.route, args.env, args.header)>>)

CallBookRenderedSlot ==
    Returns("bookRenderedSlot",
            bookRenderedSlot(args.slot, args.renderer, args.display, args.style,
                             args.timezone))

CallAvailability ==
    Returns("availability",
            availabilitySlots(args.day, args.startHour, args.endHour, args.duration,
                              args.events, args.now))

CallGetCalendarSlots ==
    Returns("get_calendar_slots",
            get_calendar_slots(args.requested, args.days, args.duration, args.now,
                               args.events))

FnNext ==
    \/ CallLuxon \/ CallComputeFreeSlots \/ CallMergeIntervals
    \/ CallMergeBusyIntervals \/ CallAvailability \/ CallGetCalendarSlots
    \/ CallFetchBusyIntervals \/ CallBookRenderedSlot
    \/ CallExtractWindowParams \/ CallSlotDuration \/ CallSlotParams
    \/ CallCoerceRequested \/ CallRequireAuth \/ CallCheckAvailability
    \/ CallGenerators

SpecFn == InitFn /\ [][FnNext]_vars

---------------------------------------------------------------------------
(* POST /book of src/GoogleCalendarWebhook.js against the shared calendar *)

Reqs == {1, 2}

MaxExternal == 1

\* 14:00-14:30 and 14:15-14:45 of day Today
SlotPool == { Iv(DayStart(Today) + 840, DayStart(Today) + 870),
              Iv(DayStart(Today) + 855, DayStart(Today) + 885) }

\* bodies, by what start/end hold:
\*   "iso"        start and end are ISO datetimes of a slot
\*   "malformed"  start and end are present but not datetimes
\*   "startOnly"  start is present; end, date, start_time and end_time are not
\*   "missing"    none of the fields is present
\* attendee: whether attendee_email is given
BodyChoices ==
    { [kind |-> "iso", slot |-> s, attendee |-> a] : s \in SlotPool, a \in BOOLEAN }
    \cup { [kind |-> k, slot |-> Iv(0, 0), attendee |-> FALSE] :
              k \in {"malformed", "startOnly", "missing"} }

NoBody == [kind |-> "none", slot |-> Iv(0, 0), attendee |-> FALSE]

\* half-open overlap of a chosen interval with an event of the calendar
Busy(slot, events) ==
    \E ev \in events : slot.start < ev.iv.end /\ ev.iv.start < slot.end

InitBook ==
    /\ mode = "book"
    /\ ScanOff /\ FnOff /\ AvailOff /\ LaunchOff
    /\ bookPc = [r \in Reqs |-> "idle"]
    /\ body = [r \in Reqs |-> NoBody]
    /\ outcome = [r \in Reqs |-> "none"]
    /\ calendar = {}
    /\ cachedCalendarClient = FALSE
    /\ authorizations = 0
    /\ inserts = [r \in Reqs |-> 0]
    /\ conflictAtInsert = [r \in Reqs |-> FALSE]
    /\ externals = 0
    /\ upstream = [r \in Reqs |-> <<>>]
    /\ responses = [r \in Reqs |-> 0]
    /\ sinkError = [r \in Reqs |-> "none"]

\* if (!startISO && (!date || !startTime || !endTime)) return res.status(400)
MissingFields(b) == b.kind = "missing"

\* res.status(...).json(...) or res.json(...): the response of request r
Respond(r, result) ==
    /\ outcome' = [outcome EXCEPT ![r] = result]
    /\ responses' = [responses EXCEPT ![r] = @ + 1]
    /\ bookPc' = [bookPc EXCEPT ![r] = "done"]

\* lines 455-510: the synchronous part up to the first await
BookReceive(r) ==
    /\ mode = "book" /\ bookPc[r] = "idle"
    /\ \E b \in BodyChoices :
         /\ body' = [body EXCEPT ![r] = b]
         /\ IF MissingFields(b)
            THEN Respond(r, "rejected_input")
            ELSE /\ bookPc' = [bookPc EXCEPT ![r] = "client"]
                 /\ UNCHANGED <<outcome, responses>>
    /\ UNCHANGED <<mode, launchVars, scanVars, fnVars, availVars, calendar, cachedCalendarClient,
                   authorizations, inserts, conflictAtInsert, externals, upstream,
                   sinkError>>

\* getCalendarClient, lines 208-227: on a cache hit the handler goes on to
\* getCalendarTimezone (calendars.get); otherwise jwt.authorize() is issued
BookGetClient(r) ==
    /\ mode = "book" /\ bookPc[r] = "client"
    /\ IF cachedCalendarClient
       THEN /\ bookPc' = [bookPc EXCEPT ![r] = "timezone"]
            /\ upstream' = [upstream EXCEPT ![r] = Append(@, "calendars.get")]
            /\ UNCHANGED authorizations
       ELSE /\ bookPc' = [bookPc EXCEPT ![r] = "authorizing"]
            /\ upstream' = [upstream EXCEPT ![r] = Append(@, "authorize")]
            /\ authorizations' = authorizations + 1
    /\ UNCHANGED <<mode, launchVars, scanVars, fnVars, availVars, body, outcome, calendar,
                   cachedCalendarClient, inserts, conflictAtInsert, externals,
                   responses, sinkError>>

\* lines 227-231 and 514: authorize resolved, the client is cached and
\* getCalendarTimezone is called
BookAuthorized(r) ==
    /\ mode = "book" /\ bookPc[r] = "authorizing"
    /\ cachedCalendarClient' = TRUE
    /\ bookPc' = [bookPc EXCEPT ![r] = "timezone"]
    /\ upstream' = [upstream EXCEPT ![r] = Append(@, "calendars.get")]
    /\ UNCHANGED <<mode, launchVars, scanVars, fnVars, availVars, body, outcome, calendar,
                   authorizations, inserts, conflictAtInsert, externals, responses,
                   sinkError>>

\* authorize rejected: the catch block answers 500 (627-633)
BookAuthorizeFailed(r) ==
    /\ mode = "book" /\ bookPc[r] = "authorizing"
    /\ Respond(r, "upstream_failure")
    /\ UNCHANGED <<mode, launchVars, scanVars, fnVars, availVars, body, calendar,
                   cachedCalendarClient, authorizations, inserts, conflictAtInsert,
                   externals, upstream, sinkError>>

\* variant: a lock and a pre-check in front of calendar.events.insert
InsertAllowedLocked(r) ==
    /\ \A q \in Reqs \ {r} : bookPc[q] # "inserting"
    /\ ~Busy(body[r].slot, calendar)

\* what stands between the timezone lookup and calendar.events.insert
InsertAllowed(r) == TRUE

\* lines 519 and 567: without end the date/time branch is taken and
\* startTime.toUpperCase() throws on undefined
BuildThrows(b) == b.kind = "startOnly"

\* lines 514-633: the timezone lookup resolved (it never throws), building
\* the event threw and the catch block answers 500
BookBuildFailed(r) ==
    /\ mode = "book" /\ bookPc[r] = "timezone"
    /\ BuildThrows(body[r])
    /\ Respond(r, "upstream_failure")
    /\ UNCHANGED <<mode, launchVars, scanVars, fnVars, availVars, body, calendar,
                   cachedCalendarClient, authorizations, inserts, conflictAtInsert,
                   externals, upstream, sinkError>>

\* lines 514-610: the timezone lookup resolved (it never throws), the event
\* is built and calendar.events.insert is issued
BookIssueInsert(r) ==
    /\ mode = "book" /\ bookPc[r] = "timezone"
    /\ ~BuildThrows(body[r])
    /\ InsertAllowed(r)
    /\ inserts' = [inserts EXCEPT ![r] = @ + 1]
    /\ upstream' = [upstream EXCEPT ![r] = Append(@, "events.insert")]
    /\ conflictAtInsert' = [conflictAtInsert EXCEPT ![r] = Busy(body[r].slot, calendar)]
    /\ bookPc' = [bookPc EXCEPT ![r] = "inserting"]
    /\ UNCHANGED <<mode, launchVars, scanVars, fnVars, availVars, body, outcome, calendar,
                   cachedCalendarClient, authorizations, externals, responses,
                   sinkError>>

\* lines 612-625: the insert resolved (the calendar takes an event only with
\* well-formed datetimes) and the handler answers with the event
BookInserted(r) ==
    /\ mode = "book" /\ bookPc[r] = "inserting"
    /\ body[r].kind = "iso"
    /\ calendar' = calendar \cup {[iv |-> body[r].slot, by |-> r]}
    /\ Respond(r, "reserved")
    /\ UNCHANGED <<mode, launchVars, scanVars, fnVars, availVars, body, cachedCalendarClient,
                   authorizations, inserts, conflictAtInsert, externals, upstream,
                   sinkError>>

\* the reasons the calendar gives for rejecting an insert
SinkErrors(b) ==
    {"generic"} \cup (IF b.attendee THEN {"cannotNotifyAttendees"} ELSE {})

\* variant: the catch block issues the insert again
BookInsertFailedRetry(r) ==
    /\ mode = "book" /\ bookPc[r] = "inserting"
    /\ Len(upstream[r]) < 4
    /\ inserts' = [inserts EXCEPT ![r] = @ + 1]
    /\ upstream' = [upstream EXCEPT ![r] = Append(@, "events.insert")]
    /\ UNCHANGED <<mode, launchVars, scanVars, fnVars, availVars, bookPc, body, outcome, calendar,
                   cachedCalendarClient, authorizations, conflictAtInsert, externals,
                   responses, sinkError>>

\* lines 627-633: res.status(500).json({ error: 'Failed to book appointment',
\* message: error.message }) for every error
ErrorKind(err) == "upstream_failure"

\* the insert rejected: the catch block answers 500 (627-633)
BookInsertFailed(r) ==
    /\ mode = "book" /\ bookPc[r] = "inserting"
    /\ \E err \in SinkErrors(body[r]) :
         /\ sinkError' = [sinkError EXCEPT ![r] = err]
         /\ Respond(r, ErrorKind(err))
    /\ UNCHANGED <<mode, launchVars, scanVars, fnVars, availVars, body, calendar,
                   cachedCalendarClient, authorizations, inserts, conflictAtInsert,
                   externals, upstream>>

\* another party books an interval on the same calendar
ExternalEvent ==
    /\ mode = "book" /\ externals < MaxExternal
    /\ \E s \in SlotPool : calendar' = calendar \cup {[iv |-> s, by |-> 0]}
    /\ externals' = externals + 1
    /\ UNCHANGED <<mode, launchVars, scanVars, fnVars, availVars, bookPc, body, outcome,
                   cachedCalendarClient, authorizations, inserts, conflictAtInsert,
                   upstream, responses, sinkError>>

\* the steps of request r after its arrival
BookStep(r) ==
    \/ BookGetClient(r) \/ BookAuthorized(r) \/ BookAuthorizeFailed(r)
    \/ BookBuildFailed(r) \/ BookIssueInsert(r) \/ BookInserted(r)
    \/ BookInsertFailed(r)

BookNext ==
    \/ \E r \in Reqs : BookReceive(r) \/ BookStep(r)
    \/ ExternalEvent

SpecBook == InitBook /\ [][BookNext]_vars

---------------------------------------------------------------------------
(* POST /availability of src/GoogleCalendarWebhook.js *)

DAYS_TO_CHECK_AHEAD == 7

\* windows as extractWindowParams returns them, the last two with
\* end_hour <= start_hour
AvailWindowChoices ==
    { [start_hour |-> DEFAULT_WORKDAY_START, end_hour |-> DEFAULT_WORKDAY_END],
      [start_hour |-> DEFAULT_WORKDAY_END, end_hour |-> DEFAULT_WORKDAY_START],
      [start_hour |-> DEFAULT_WORKDAY_START, end_hour |-> DEFAULT_WORKDAY_START] }

\* the numbers of free slots one day's busy data can leave in a window
SlotsFound(window) ==
    IF window.end_hour <= window.start_hour THEN {0} ELSE {0, 1, DEFAULT_MAX_SLOTS}

Call(name, day) == [call |-> name, day |-> day]

InitAvail ==
    /\ mode = "avail"
    /\ ScanOff /\ FnOff /\ BookOff /\ LaunchOff
    /\ availPc = "idle"
    /\ availReq = <<>>
    /\ availCached \in BOOLEAN
    /\ availOutcome = "none"
    /\ availCalls = <<>>
    /\ availResponses = 0
    /\ availScan = <<>>

AvailRespond(result) ==
    /\ availOutcome' = result
    /\ availResponses' = availResponses + 1
    /\ availPc' = "done"

\* lines 362-374: date, calendar id and window are extracted, nothing is tested
AvailReceive ==
    /\ mode = "avail" /\ availPc = "idle"
    /\ \E d \in DateChoices, w \in AvailWindowChoices :
         availReq' = [date |-> d, window |-> w]
    /\ availPc' = "client"
    /\ UNCHANGED <<mode, launchVars, scanVars, fnVars, bookVars, availCached, availOutcome,
                   availCalls, availResponses, availScan>>

\* line 377 and getCalendarClient, 208-227
AvailGetClient ==
    /\ mode = "avail" /\ availPc = "client"
    /\ IF availCached
       THEN /\ availPc' = "timezone"
            /\ availCalls' = Append(availCalls, Call("calendars.get", 0))
       ELSE /\ availPc' = "authorizing"
            /\ availCalls' = Append(availCalls, Call("authorize", 0))
    /\ UNCHANGED <<mode, launchVars, scanVars, fnVars, bookVars, availReq, availCached,
                   availOutcome, availResponses, availScan>>

\* lines 227-231 and 378
AvailAuthorized ==
    /\ mode = "avail" /\ availPc = "authorizing"
    /\ availCached' = TRUE
    /\ availPc' = "timezone"
    /\ availCalls' = Append(availCalls, Call("calendars.get", 0))
    /\ UNCHANGED <<mode, launchVars, scanVars, fnVars, bookVars, availReq, availOutcome,
                   availResponses, availScan>>

\* authorize rejected: the catch block answers 500 (442-448)
AvailAuthorizeFailed ==
    /\ mode = "avail" /\ availPc = "authorizing"
    /\ AvailRespond("upstream_failure")
    /\ UNCHANGED <<mode, launchVars, scanVars, fnVars, bookVars, availReq, availCached,
                   availCalls, availScan>>

\* lines 378-415: the timezone lookup resolved (it never throws), the date is
\* resolved and findAvailableSlotsMultiDay is entered
AvailResolve ==
    /\ mode = "avail" /\ availPc = "timezone"
    /\ LET dateResolution == resolveIntendedDate(availReq.date, Today)
       IN  availScan' = [date |-> dateResolution.date,
                         days |-> IF dateResolution.checkMultipleDays
                                  THEN DAYS_TO_CHECK_AHEAD ELSE 1,
                         day |-> 0, found |-> 0]
    /\ availPc' = "scan"
    /\ UNCHANGED <<mode, launchVars, scanVars, fnVars, bookVars, availReq, availCached,
                   availOutcome, availCalls, availResponses>>

\* line 270: dayOffset < daysToCheck && allSlots.length < maxSlots
AvailForGuard == availScan.day < availScan.days /\ availScan.found < DEFAULT_MAX_SLOTS

\* lines 289-291: today's window may already be over
AvailSkipDay ==
    /\ mode = "avail" /\ availPc = "scan" /\ AvailForGuard
    /\ availScan.date = Today /\ availScan.day = 0
    /\ availScan' = [availScan EXCEPT !.day = @ + 1]
    /\ UNCHANGED <<mode, launchVars, scanVars, fnVars, bookVars, availPc, availReq, availCached,
                   availOutcome, availCalls, availResponses>>

\* variant: the day's request is a reservation instead of a busy query
BusyFetchAsInsert(day) == Call("events.insert", day)

\* calendar.freebusy.query of fetchBusyTimes (252-258)
BusyFetch(day) == Call("freebusy.query", day)

\* what a call leaves of the calendar's reservations: only events.insert adds one
CalendarAfter(reservations, c) ==
    IF c.call = "events.insert" THEN reservations \cup {c} ELSE reservations

\* line 294: fetchBusyTimes issues freebusy.query for the day
AvailFetch ==
    /\ mode = "avail" /\ availPc = "scan" /\ AvailForGuard
    /\ LET c == BusyFetch(availScan.day)
       IN  /\ availCalls' = Append(availCalls, c)
           /\ calendar' = CalendarAfter(calendar, c)
    /\ availPc' = "fetching"
    /\ UNCHANGED <<mode, launchVars, scanVars, fnVars, availReq, availCached,
                   availOutcome, availResponses, availScan>>
    /\ UNCHANGED <<bookPc, body, outcome, cachedCalendarClient, authorizations,
                   inserts, conflictAtInsert, externals, upstream, responses, sinkError>>

\* lines 296-329: the busy data arrived and the day's slots are collected
AvailFetched ==
    /\ mode = "avail" /\ availPc = "fetching"
    /\ \E k \in SlotsFound(availReq.window) :
         availScan' = [availScan EXCEPT !.day = @ + 1,
                                        !.found = Min(@ + k, DEFAULT_MAX_SLOTS)]
    /\ availPc' = "scan"
    /\ UNCHANGED <<mode, launchVars, scanVars, fnVars, bookVars, availReq, availCached,
                   availOutcome, availCalls, availResponses>>

\* freebusy.query rejected: the catch block answers 500 (442-448)
AvailFetchFailed ==
    /\ mode = "avail" /\ availPc = "fetching"
    /\ AvailRespond("upstream_failure")
    /\ UNCHANGED <<mode, launchVars, scanVars, fnVars, bookVars, availReq, availCached,
                   availCalls, availScan>>

\* lines 417-440: res.json(response) with available_slots
AvailReturnSlots ==
    /\ mode = "avail" /\ availPc = "scan" /\ ~AvailForGuard
    /\ AvailRespond("slots_returned")
    /\ UNCHANGED <<mode, launchVars, scanVars, fnVars, bookVars, availReq, availCached,
                   availCalls, availScan>>

\* the steps of the request after its arrival
AvailStep ==
    \/ AvailGetClient \/ AvailAuthorized \/ AvailAuthorizeFailed \/ AvailResolve
    \/ AvailSkipDay \/ AvailFetch \/ AvailFetched \/ AvailFetchFailed
    \/ AvailReturnSlots

AvailNext == AvailReceive \/ AvailStep

SpecAvail == InitAvail /\ [][AvailNext]_vars

---------------------------------------------------------------------------
(* The launcher: src/main.js and its earlier version src/main_25-11-21.js *)

\* what require('./GoogleCalendarWebhook.js') yields: an Express app (has listen),
\* an express.Router (has use, no listen), another value, or an exception
Exports == {"app", "router", "object", "undefined", "throws"}
LauncherFiles == {"main.js", "main_25-11-21.js"}

InitLaunch ==
    /\ mode = "launch"
    /\ ScanOff /\ FnOff /\ BookOff /\ AvailOff
    /\ launchPc = "main"
    /\ \E f \in LauncherFiles, e \in Exports :
           launch = [file |-> f, exported |-> e, success |-> "pending"]
    /\ servers = <<>>

\* startMainApp: the value it resolves to and the server it calls listen() on.
\* main.js serves only an export with listen (167); main_25-11-21.js also mounts a
\* router on an app of its own (165-186); a throwing require is caught (180-183)
startMainApp(file, exported) ==
    IF exported = "throws" THEN [success |-> FALSE, listens |-> <<>>]
    ELSE IF exported = "app" THEN [success |-> TRUE, listens |-> <<"primary">>]
    ELSE IF file = "main_25-11-21.js" /\ exported = "router"
         THEN [success |-> TRUE, listens |-> <<"primary">>]
    ELSE [success |-> FALSE, listens |-> <<>>]

\* the main IIFE up to its await: startMainApp has no await of its own (320)
LaunchStartMainApp ==
    /\ mode = "launch" /\ launchPc = "main"
    /\ LET r == startMainApp(launch.file, launch.exported) IN
           /\ servers' = servers \o r.listens
           /\ launch' = [launch EXCEPT !.success = r.success]
    /\ launchPc' = "awaited"
    /\ UNCHANGED <<mode, scanVars, fnVars, bookVars, availVars>>

\* if (!success) of the main IIFE (322)
FallbackAlways(success) == TRUE
FallbackNeeded(success) == ~success

\* the main IIFE after the await: startFallbackServer calls listen() (311)
LaunchAfterAwait ==
    /\ mode = "launch" /\ launchPc = "awaited"
    /\ servers' = IF FallbackNeeded(launch.success) THEN Append(servers, "fallback")
                  ELSE servers
    /\ launchPc' = "done"
    /\ UNCHANGED <<mode, launch, scanVars, fnVars, bookVars, availVars>>

LaunchNext == LaunchStartMainApp \/ LaunchAfterAwait
SpecLaunch == InitLaunch /\ [][LaunchNext]_vars

---------------------------------------------------------------------------
(* The slot-generation loops, iteration by iteration *)

\* computeFreeSlotsLuxon as POST /availability of part_002 calls it, and the tail
\* loop of computeFreeSlots as get_calendar_slots calls it on a day without events.
\* data holds the numeric overrides of the request.
GenStart(f, a) ==
    IF f = "computeFreeSlotsLuxon"
    THEN roundUpToAlignment(a.windowStart, alignmentOf(a.data))
    ELSE a.windowStart.min
GenDuration(f, a) ==
    IF f = "computeFreeSlotsLuxon" THEN slotDurationOf(a.data)
    ELSE used_slotMinutes([NoParams EXCEPT !.slotDurationMinutes = a.data.slotDurationMinutes])
GenAdvance(f, a) ==
    IF f = "computeFreeSlotsLuxon" THEN alignmentOf(a.data) ELSE GenDuration(f, a)

\* The walk of a candidate that has gone back before FarPast is folded onto the
\* two instants FarPast and one step after it: the loop test is true of every
\* instant up to there, FarPast plus two steps and any duration lying before every
\* window end, so the loop does the same from the folded instant.
FarPast == DayStart(0)
FoldFarPast(t, advance) == IF t < FarPast THEN t - 2 * advance ELSE t

GenOverrides == {Absent, Given(0), Given(SLOT_ALIGNMENT_MINUTES), Given(45), Given(90),
                 Given(0 - SLOT_ALIGNMENT_MINUTES), Given(0 - 30)}
\* the window starts of the calls, and ten to eleven
GenStarts == LuxonStarts \cup {[min |-> 650, sub |-> 0]}

InitGen ==
    /\ mode = "gen"
    /\ ScanOff /\ BookOff /\ AvailOff /\ LaunchOff
    /\ fn \in {"computeFreeSlotsLuxon", "computeFreeSlots"}
    /\ \E ws \in GenStarts, we \in LuxonEnds, d \in GenOverrides, al \in GenOverrides :
           /\ fn = "computeFreeSlots" => (ws.sub = 0 /\ al = Absent)
           /\ args = [windowStart |-> ws, windowEnd |-> we,
                      data |-> [slotDurationMinutes |-> d, alignmentMinutes |-> al]]
    /\ ret = <<>>
    /\ fnPc = "called"

\* let candidate = roundUpToAlignment(...) (part_002 143); let cursor = window.start
GenEnter ==
    /\ mode = "gen" /\ fnPc = "called"
    /\ ret' = <<GenStart(fn, args)>>
    /\ fnPc' = "loop"
    /\ UNCHANGED <<mode, fn, args, scanVars, bookVars, availVars, launchVars>>

\* candidate.plus(slotDur) <= windowEndDT (145); cursor.plus(...) <= window.end (309)
GenTest == ret[1] + GenDuration(fn, args) <= args.windowEnd

\* one pass through the loop body, ending with the advance (163, 313)
GenIterate ==
    /\ mode = "gen" /\ fnPc = "loop" /\ GenTest
    /\ ret' = <<FoldFarPast(ret[1] + GenAdvance(fn, args), GenAdvance(fn, args))>>
    /\ UNCHANGED <<mode, fn, args, fnPc, scanVars, bookVars, availVars, launchVars>>

\* the loop test fails and the function returns
GenLeave ==
    /\ mode = "gen" /\ fnPc = "loop" /\ ~GenTest
    /\ fnPc' = "returned"
    /\ UNCHANGED <<mode, fn, args, ret, scanVars, bookVars, availVars, launchVars>>

GenNext == GenEnter \/ GenIterate \/ GenLeave
\* the loop runs on as long as it can
SpecGen == InitGen /\ [][GenNext]_vars /\ WF_vars(GenNext)

---------------------------------------------------------------------------
(* All components *)

Init == InitScan \/ InitFn \/ InitBook \/ InitAvail \/ InitLaunch
Next == ScanNext \/ FnNext \/ BookNext \/ AvailNext \/ LaunchNext
Spec == Init /\ [][Next]_vars

\* The request handlers alone, with every upstream call answered in the end
\* and every continuation run: weak fairness of each request's steps.
RequestsNext == BookNext \/ AvailNext
SpecRequests ==
    /\ InitBook \/ InitAvail
    /\ [][RequestsNext]_vars
    /\ \A r \in Reqs : WF_vars(BookStep(r))
    /\ WF_vars(AvailStep)

---------------------------------------------------------------------------
(* Properties *)

SlotsOf(list) == { list[i] : i \in DOMAIN list }
Disjoint(s, e, b) == ~(s < b.end /\ b.start < e)

\* every busy interval the scan was given, on the absolute time line
ScanBusy ==
    UNION { SlotsOf(fetchBusyTimes(off)) : off \in DOMAIN busyByDay }

LuxonReturned == mode = "fn" /\ fn = "computeFreeSlotsLuxon" /\ fnPc = "returned"
GapWalkReturned == mode = "fn" /\ fn = "computeFreeSlots" /\ fnPc = "returned"
AvailabilityReturned == mode = "fn" /\ fn = "availability" /\ fnPc = "returned"
GcsReturned == mode = "fn" /\ fn = "get_calendar_slots" /\ fnPc = "returned"
MergeReturned ==
    mode = "fn" /\ fn \in {"mergeIntervals", "mergeBusyIntervals"} /\ fnPc = "returned"

\* C1: no slot returned by findAvailableSlotsMultiDay or by
\* computeFreeSlotsLuxon intersects a busy interval it was computed from
C1_NoOverlap ==
    /\ mode = "scan" =>
          \A s \in SlotsOf(allSlots) : \A b \in ScanBusy : Disjoint(s.start, s.end, b)
    /\ LuxonReturned =>
          \A s \in SlotsOf(ret) : \A b \in SlotsOf(args.busy) :
              Disjoint(s.start, s.end, b)

\* a finished scan that returned slots and turned a candidate down on a day
\* with busy intervals
C1_Witness ==
    /\ mode = "scan" /\ scanPc = "done"
    /\ allSlots # <<>>
    /\ tested > Len(allSlots)
    /\ \E i \in DOMAIN fetched : busyByDay[fetched[i]] # <<>>

\* C2: a booking whose interval is busy when the reservation is due ends
\* with SlotNoLongerAvailable and never issues calendar.events.insert
C2_ConflictGuard ==
    mode = "book" =>
       \A r \in Reqs :
          (bookPc[r] \in {"inserting", "done"} /\ conflictAtInsert[r])
             => (inserts[r] = 0 /\ (bookPc[r] = "done" => outcome[r] = "conflict"))

\* C3: nothing holds a booking request back between the end of its
\* validation and calendar.events.insert: a request that has its client and
\* timezone, and whose event can be built, can always issue the insert,
\* whatever the other request is doing and whatever the calendar holds
C3_NoLock ==
    mode = "book" =>
       \A r \in Reqs :
          (bookPc[r] = "timezone" /\ ~BuildThrows(body[r])) => ENABLED BookIssueInsert(r)

\* both requests have issued the insert for the same interval and both
\* inserts are in flight
C3_BothInserting ==
    /\ mode = "book"
    /\ \A r \in Reqs : bookPc[r] = "inserting" /\ inserts[r] = 1 /\ body[r].kind = "iso"
    /\ body[1].slot = body[2].slot

\* C4: no returned slot starts at or before now, in
\* findAvailableSlotsMultiDay, in the /availability loop of part_001 and in
\* get_calendar_slots
C4_NoPastSlots ==
    /\ mode = "scan" => \A s \in SlotsOf(allSlots) : ~AtOrBefore(s.start, now)
    /\ AvailabilityReturned =>
          \A s \in SlotsOf(ret) : ~AtOrBefore(s.start_iso, args.now)
    /\ GcsReturned =>
          \A d \in SlotsOf(ret) : \A s \in SlotsOf(d.slots) :
              ~AtOrBefore(s.start, args.now)

\* C5: the multi-day scan returns no slot dated on a Saturday or Sunday
\* (no request can allow weekends: the code reads no such flag)
C5_WeekendExclusion ==
    /\ mode = "scan" => \A s \in SlotsOf(allSlots) : ~IsWeekend(s.date)
    /\ GcsReturned => \A d \in SlotsOf(ret) : d.slots # <<>> => ~IsWeekend(d.date)

\* the scan of all days with no quota: the accepted candidates of the
\* scanned range and the number of candidates tested, from day offset off on
Unlimited == MinutesPerDay * (MaxDays + 1)

DayScan(off) ==
    LET day == startDate + off
    IN  IF WindowPast(off) THEN [slots |-> <<>>, tested |-> 0]
        ELSE SlotLoop(day,
                      FirstCurrent(WindowStart(day, windowParams), now, slotAlignment),
                      WindowEnd(day, windowParams),
                      windowParams.slot_duration_minutes, fetchBusyTimes(off),
                      slotAlignment, Unlimited)

RECURSIVE AcceptedFrom(_)
AcceptedFrom(off) ==
    IF off >= daysToCheck THEN <<>>
    ELSE DayScan(off).slots \o AcceptedFrom(off + 1)

RECURSIVE TestedBefore(_)
TestedBefore(off) == IF off <= 0 THEN 0 ELSE TestedBefore(off - 1) + DayScan(off - 1).tested

\* candidates of the day of slot s up to and including s
TestedUpTo(s) ==
    LET off == s.date - startDate
        first == FirstCurrent(WindowStart(s.date, windowParams), now, slotAlignment)
    IN  TestedBefore(off) + ((s.start - first) \div slotAlignment) + 1

\* C6: the scan never holds more than maxSlots slots; it returns the first
\* min(maxSlots, total) accepted candidates of the range in order; and once
\* the quota is met it has tested no candidate after the last returned slot
\* and fetched no day after that slot's day
C6_Quota ==
    mode = "scan" =>
       /\ Len(allSlots) <= maxSlots
       /\ scanPc = "done" =>
             LET all == AcceptedFrom(0)
             IN  allSlots = SubSeq(all, 1, Min(maxSlots, Len(all)))
       /\ (scanPc = "done" /\ Len(allSlots) = maxSlots /\ maxSlots > 0) =>
             LET last == allSlots[Len(allSlots)]
             IN  /\ tested = TestedUpTo(last)
                 /\ \A i \in DOMAIN fetched : startDate + fetched[i] <= last.date

\* the quota was met on the first day although later candidates and another
\* day remained
C6_Witness ==
    /\ mode = "scan" /\ scanPc = "done"
    /\ Len(allSlots) = maxSlots
    /\ Len(AcceptedFrom(0)) > maxSlots
    /\ dayOffset < daysToCheck
    /\ Len(AcceptedFrom(dayOffset)) > 0

\* C7: the slots of one result are strictly ascending by (date, start)
C7_Ascending ==
    mode = "scan" =>
       \A i \in 1..(Len(allSlots) - 1) :
          /\ allSlots[i].start < allSlots[i + 1].start
          /\ allSlots[i].date <= allSlots[i + 1].date

\* a finished scan whose result runs over a day boundary
C7_Witness ==
    /\ mode = "scan" /\ scanPc = "done"
    /\ \E i \in 1..(Len(allSlots) - 1) : allSlots[i].date < allSlots[i + 1].date

\* C8: every slot of findAvailableSlotsMultiDay, computeFreeSlotsLuxon and
\* computeFreeSlots is exactly the requested duration long
C8_Duration ==
    /\ mode = "scan" =>
          \A s \in SlotsOf(allSlots) :
              s.end - s.start = windowParams.slot_duration_minutes
    /\ (LuxonReturned \/ GapWalkReturned) =>
          \A s \in SlotsOf(ret) : s.end - s.start = args.duration

\* a finished scan with slots whose duration differs from the alignment step
C8_Witness ==
    /\ mode = "scan" /\ scanPc = "done"
    /\ Len(allSlots) >= 2
    /\ windowParams.slot_duration_minutes # slotAlignment

\* C9 as claimed: every slot start is a whole number of alignment steps
\* after the window start, whatever the window start
C9_AlignedToWindowStart ==
    /\ mode = "scan" =>
          \A s \in SlotsOf(allSlots) :
              (s.start - WindowStart(s.date, windowParams)) % slotAlignment = 0
    /\ LuxonReturned =>
          \A s \in SlotsOf(ret) :
              /\ args.windowStart.sub = 0
              /\ (s.start - args.windowStart.min) % args.alignment = 0

\* the window start lies on a wall-clock multiple of the alignment
OnWallClockGrid(dt, alignmentMinutes) ==
    MinuteOfHour(dt.min) % alignmentMinutes = 0 /\ dt.sub = 0

\* C9 as amended: every slot start is a whole number of alignment steps
\* after the first candidate, which is the window start in
\* findAvailableSlotsMultiDay and, in computeFreeSlotsLuxon, the window start
\* rounded up by roundUpToAlignment; it is a whole number of steps after the
\* window start itself when that lies on a wall-clock multiple of the
\* alignment
C9_AlignedToGrid ==
    /\ mode = "scan" =>
          \A s \in SlotsOf(allSlots) :
              (s.start - WindowStart(s.date, windowParams)) % slotAlignment = 0
    /\ LuxonReturned =>
          \A s \in SlotsOf(ret) :
              /\ (s.start - roundUpToAlignment(args.windowStart, args.alignment))
                     % args.alignment = 0
              /\ OnWallClockGrid(args.windowStart, args.alignment) =>
                    (s.start - args.windowStart.min) % args.alignment = 0

\* computeFreeSlotsLuxon returned slots for a window start off the grid
C9_Witness ==
    /\ LuxonReturned
    /\ ~OnWallClockGrid(args.windowStart, args.alignment)
    /\ Len(ret) >= 2
    /\ args.duration % args.alignment # 0

\* every usable pair given to the merge has start < end
WellFormedInput ==
    \/ fn = "mergeIntervals"
    \/ /\ fn = "mergeBusyIntervals"
       /\ \A i \in DOMAIN args.events :
             EventUsable(args.events[i]) => args.events[i].start.t < args.events[i].end.t

\* C10: for inputs with start < end, a merge returns intervals sorted ascending by start, each starting
\* strictly after the end of the one before it
C10_PostMerge ==
    (MergeReturned /\ WellFormedInput) =>
       /\ \A i \in DOMAIN ret : ret[i].start < ret[i].end
       /\ \A i \in 1..(Len(ret) - 1) :
             /\ ret[i].start < ret[i + 1].start
             /\ ret[i].end < ret[i + 1].start

\* mergeIntervals was given three intervals out of order, two of them
\* contiguous, and returned two
C10_Witness ==
    /\ mode = "fn" /\ fn = "mergeIntervals" /\ fnPc = "returned"
    /\ Len(args.intervals) = 3 /\ Len(ret) = 2
    /\ args.intervals[1].start > args.intervals[2].start
    /\ \E i, j \in DOMAIN args.intervals : args.intervals[i].end = args.intervals[j].start

\* the merge of the pairs that are usable and have start < end
ValidOnly(events) == EventsToIntervalsChecked(events)

\* C11: merging the result of mergeIntervals again gives the same list
C11_Idempotent ==
    (mode = "fn" /\ fn = "mergeIntervals" /\ fnPc = "returned") =>
        mergeIntervals(ret) = ret

\* mergeIntervals fused a chain of three intervals, each reaching the next
\* only through the one before it, into one
C11_Witness ==
    /\ mode = "fn" /\ fn = "mergeIntervals" /\ fnPc = "returned"
    /\ Len(args.intervals) = 3 /\ Len(ret) = 1
    /\ \E i, j \in DOMAIN args.intervals : args.intervals[i].end < args.intervals[j].start

\* C12: a busy merge never fails on an invalid pair and returns exactly the
\* merge of the pairs that have both endpoints parsable and start < end
C12_InvalidPairsDropped ==
    /\ ~(mode = "fn" /\ fnPc = "threw")
    /\ (mode = "fn" /\ fn = "mergeBusyIntervals" /\ fnPc = "returned") =>
          ret = mergeIntervals(ValidOnly(args.events))
    /\ (mode = "fn" /\ fn = "fetchBusyIntervals" /\ fnPc = "returned") =>
          ret = mergeIntervals(ValidOnly(args.busy))

\* C13: booking the start and end of a rendered slot verbatim sends the sink
\* the same two instants as the slot, whatever zone the slot was shown in
C13_RoundTrip ==
    (mode = "fn" /\ fn = "bookRenderedSlot" /\ fnPc = "returned"
       /\ args.style = "iso") =>
        ret = <<args.slot>>

\* a slot shown in a zone other than the calendar's, with a non-zero offset,
\* was booked by its start and end
C13_Witness ==
    /\ mode = "fn" /\ fn = "bookRenderedSlot" /\ fnPc = "returned"
    /\ args.style = "iso" /\ args.renderer = "toISO"
    /\ args.display # args.timezone /\ args.display # 0
    /\ ret = <<args.slot>>

\* input the handlers ought to reject: fields absent, start or end that is no
\* datetime, end absent; a date that is no date, a window with end <= start
InvalidBody(b) == b.kind \in {"missing", "malformed", "startOnly"}
InvalidAvailRequest ==
    /\ mode = "avail" /\ availPc # "idle"
    /\ \/ availReq.date.kind = "malformed"
       \/ availReq.window.end_hour <= availReq.window.start_hour

\* C14: a request with invalid input issues no upstream call, a request
\* answered rejected_input has issued none, and no insert carries a start or
\* end that is no datetime
C14_FailFast ==
    /\ mode = "book" =>
         \A r \in Reqs :
            /\ InvalidBody(body[r]) => upstream[r] = <<>>
            /\ outcome[r] = "rejected_input" => upstream[r] = <<>>
            /\ inserts[r] > 0 => body[r].kind # "malformed"
    /\ InvalidAvailRequest => availCalls = <<>>
    /\ (mode = "avail" /\ availOutcome = "rejected_input") => availCalls = <<>>

\* C15: an availability request with an unparsable date or a window whose
\* end hour is not after its start hour is never answered with slots
C15_InvalidRejected ==
    (InvalidAvailRequest /\ availPc = "done") => availOutcome # "slots_returned"

NoDuplicates(s) == \A i, j \in DOMAIN s : i # j => s[i] # s[j]

\* one response at most, sent exactly when the handler ends, with an outcome
\* of its path; no upstream call issued twice by one request
C16_Safety ==
    /\ mode = "book" =>
         \A r \in Reqs :
            /\ responses[r] <= 1
            /\ (bookPc[r] = "done") <=> (responses[r] = 1)
            /\ IF responses[r] = 1
               THEN outcome[r] \in {"reserved", "conflict", "rejected_input",
                                    "upstream_failure"}
               ELSE outcome[r] = "none"
            /\ NoDuplicates(upstream[r])
    /\ mode = "avail" =>
         /\ availResponses <= 1
         /\ (availPc = "done") <=> (availResponses = 1)
         /\ IF availResponses = 1
            THEN availOutcome \in {"slots_returned", "rejected_input",
                                   "upstream_failure"}
            ELSE availOutcome = "none"
         /\ NoDuplicates(availCalls)

BookReceived(r) == IF mode = "book" THEN bookPc[r] # "idle" ELSE FALSE
BookResponded(r) == IF mode = "book" THEN responses[r] = 1 ELSE FALSE
AvailReceived == mode = "avail" /\ availPc # "idle"
AvailResponded == mode = "avail" /\ availResponses = 1

\* C16: every request sends exactly one response with one terminal outcome,
\* issues each upstream call at most once, and, when every upstream call
\* returns or fails, responds in the end
C16_ExactlyOneResponse ==
    /\ []C16_Safety
    /\ \A r \in Reqs : BookReceived(r) ~> BookResponded(r)
    /\ AvailReceived ~> AvailResponded

\* one booking failed at the insert and answered once while the other was
\* reserved
C16_Witness ==
    /\ mode = "book"
    /\ \E r, q \in Reqs :
         /\ outcome[r] = "upstream_failure" /\ sinkError[r] = "generic"
         /\ responses[r] = 1 /\ upstream[r][Len(upstream[r])] = "events.insert"
         /\ outcome[q] = "reserved" /\ responses[q] = 1

\* C17: an insert rejected because attendees cannot be notified is answered
\* with the kind AttendeeNotificationUnsupported, not as a generic failure
C17_AttendeeKind ==
    mode = "book" =>
       \A r \in Reqs :
          (sinkError[r] = "cannotNotifyAttendees" /\ bookPc[r] = "done") =>
             outcome[r] = "attendee_notification_unsupported"

\* C18: the calendar-client initialisation runs at most once per process,
\* whatever the interleaving of two requests
C18_InitialisedOnce == mode = "book" => authorizations <= 1

\* the value a field resolves to when a value present in requested_window,
\* else one present in the query string, is used, and the default otherwise
Resolved(inWindow, inQuery, default) ==
    IF inWindow.present THEN inWindow.value
    ELSE IF inQuery.present THEN inQuery.value ELSE default

\* C19: each of start_hour, end_hour and slot_duration_minutes takes the
\* value present in the request, 0 included, and the default only when absent
C19_PolicyResolution ==
    /\ (mode = "fn" /\ fn = "extractWindowParams" /\ fnPc = "returned") =>
          LET w == args.body.requested_window
              q == args.query
          IN  /\ ret[1].start_hour = Resolved(w.start_hour, q.start_hour, DEFAULT_WORKDAY_START)
              /\ ret[1].end_hour = Resolved(w.end_hour, q.end_hour, DEFAULT_WORKDAY_END)
              /\ ret[1].slot_duration_minutes =
                    Resolved(w.slot_duration_minutes, q.slot_duration, SLOT_DURATION_MINUTES)
    /\ (mode = "fn" /\ fn = "slotDuration" /\ fnPc = "returned") =>
          ret[1] = Resolved(args.data.slotDurationMinutes, Absent, SLOT_DURATION_MINUTES)

\* C20: called with the snake_case names, get_calendar_slots goes on with the
\* same date, slot length, number of days and time zone as with the camelCase
\* names carrying the same values
C20_SnakeCaseAccepted ==
    (mode = "fn" /\ fn = "slotParams" /\ fnPc = "returned") =>
        ret = <<slotParams(CamelCall(args.values))>>

\* the first scanned day is never before today, and is the requested day
\* when that is today or later
FirstDayOk(requestedDay, hasDay, first) ==
    /\ first >= Today
    /\ (hasDay /\ requestedDay >= Today) => first = requestedDay

\* C21: whatever date a request carries, the first date scanned is never
\* earlier than today, and a date that is today or later is scanned as given
C21_PastDateToToday ==
    /\ (mode = "avail" /\ availPc \in {"scan", "fetching", "done"} /\ availScan # <<>>) =>
          FirstDayOk(availReq.date.day, availReq.date.kind = "date", availScan.date)
    /\ GcsReturned =>
          FirstDayOk(args.requested.t, args.requested.kind = "ok", ret[1].date)
    /\ (mode = "fn" /\ fn = "coerceRequested" /\ fnPc = "returned") =>
          FirstDayOk(args.requested.day, args.requested.kind = "date", ret[1])

\* yesterday's date was requested and freebusy.query was issued for today
C21_Witness ==
    /\ mode = "avail" /\ availPc = "fetching"
    /\ availReq.date = DateOn(Today - 1)
    /\ availScan.date = Today /\ availScan.day = 0

\* C22: with SECRET_TOKEN set, a request to /availability, /slots or /book whose
\* Authorization header is not exactly "Bearer <SECRET_TOKEN>" is answered 401 and
\* its handler never runs, whatever ALLOW_UNAUTH_PARSE is; with SECRET_TOKEN unset
\* every request is let through.
AuthReturned == mode = "fn" /\ fn = "requireAuth" /\ fnPc = "returned"
ExactHeader == HeaderText(args.header) = "Bearer " \o args.env.SECRET_TOKEN
C22_AuthRequired ==
    AuthReturned =>
        /\ (/\ args.route \in GuardedRoutes
            /\ args.env.SECRET_TOKEN # NoToken
            /\ ~ExactHeader) => ret[1] = "401"
        /\ args.env.SECRET_TOKEN = NoToken => ret[1] = "next"

\* the same statement for the router's middleware alone, ALLOW_UNAUTH_PARSE not 'true'
C22_AuthRequiredWithoutBypass ==
    (AuthReturned /\ args.app = "routes" /\ args.env.ALLOW_UNAUTH_PARSE # "true") =>
        /\ (/\ args.route \in GuardedRoutes
            /\ args.env.SECRET_TOKEN # NoToken
            /\ ~ExactHeader) => ret[1] = "401"
        /\ args.env.SECRET_TOKEN = NoToken => ret[1] = "next"

\* /book reached without credentials while a secret is configured
C22_BypassReached ==
    /\ AuthReturned /\ args.app = "routes" /\ args.route = "/book"
    /\ args.env = Env("true", Secret) /\ args.header = NoHeader
    /\ ret[1] = "next"

\* C23: the launcher never has more than one server listening, ends with exactly
\* one, serves the primary app exactly when GoogleCalendarWebhook.js loaded with an
\* export it can serve, and starts the fallback server only once startMainApp has
\* returned false.
Launching == mode = "launch"
Servable ==
    \/ launch.exported = "app"
    \/ launch.file = "main_25-11-21.js" /\ launch.exported = "router"
C23_ExactlyOneServer ==
    Launching =>
        /\ Len(servers) <= 1
        /\ launchPc = "done" =>
              servers = IF Servable THEN <<"primary">> ELSE <<"fallback">>
        /\ (\E i \in 1..Len(servers) : servers[i] = "fallback") =>
              (launchPc = "done" /\ launch.success = FALSE)
        /\ launchPc = "main" => servers = <<>>

\* a router export under main.js: the primary attempt returned false, then the fallback
C23_Witness ==
    /\ Launching /\ launchPc = "done"
    /\ launch = [file |-> "main.js", exported |-> "router", success |-> FALSE]
    /\ servers = <<"fallback">>

\* C24: the slot-generation loop is left in the end, for every window and every
\* slot duration and alignment a request can supply, zero and negative numbers
\* included.
C24_LoopTerminates == <>(fnPc = "returned")

\* the loop is left whenever the advance is a positive number of minutes
C24_TerminatesWhenAdvancing ==
    (fnPc = "called" /\ GenAdvance(fn, args) > 0) ~> (fnPc = "returned")

\* a negative advance walks the candidate away from the window end
C24_WalksBackwards ==
    /\ mode = "gen" /\ fnPc = "loop" /\ GenAdvance(fn, args) < 0
    /\ ret[1] = FarPast /\ GenTest /\ ENABLED GenIterate

\* C25: checkAvailability offers a 30-minute candidate [c, c+30) it has examined
\* exactly when no event [b.start, b.end) has c < b.end and b.start < c+30.
CheckReturned == mode = "fn" /\ fn = "checkAvailability" /\ fnPc = "returned"
CheckCandidates ==
    { DayStart(args.day) + CHECK_START_HOUR * MinutesPerHour + k * CHECK_SLOT_MINUTES :
        k \in 0..((CHECK_END_HOUR - CHECK_START_HOUR) * 2 - 1) }
\* the loop stops after the fourth slot: later candidates are not examined
Examined(c) == Len(ret) < CHECK_MAX_SLOTS \/ c <= ret[Len(ret)].start
Offered(c) == \E i \in DOMAIN ret : ret[i].start = c
C25_RejectsExactlyOverlaps ==
    CheckReturned =>
        \A c \in { x \in CheckCandidates : Examined(x) } :
            Offered(c) <=> ~Conflict(c, c + CHECK_SLOT_MINUTES, args.busy)

\* a slot is offered although an event lies strictly inside it
C25_ContainedEventOffered ==
    /\ CheckReturned
    /\ \E c \in CheckCandidates, i \in DOMAIN args.busy :
          /\ Offered(c)
          /\ c < args.busy[i].start /\ args.busy[i].end < c + CHECK_SLOT_MINUTES

\* apart from events strictly inside the slot, the test is the overlap test
C25_OnlyContainedMissed ==
    CheckReturned =>
        \A c \in { x \in CheckCandidates : Examined(x) } :
            /\ ~Offered(c) => Conflict(c, c + CHECK_SLOT_MINUTES, args.busy)
            /\ (Offered(c) /\ Conflict(c, c + CHECK_SLOT_MINUTES, args.busy)) =>
                  \E i \in DOMAIN args.busy :
                      c < args.busy[i].start /\ args.busy[i].end < c + CHECK_SLOT_MINUTES

\* C26: the first candidate of computeFreeSlotsLuxon is the window start rounded up
\* to the next multiple of the alignment: a multiple of the alignment, the window
\* start itself when that is aligned, never before the window start and less than
\* one alignment step after it; every later candidate is one alignment step after
\* the one before.  For every positive alignment, also one that does not divide 60
\* or exceeds 60.
GenLuxon == mode = "gen" /\ fn = "computeFreeSlotsLuxon" /\ alignmentOf(args.data) > 0
\* a multiple of a, counted from midnight or counted within the hour
MultipleOf(t, a) == t % a = 0 \/ MinuteOfHour(t) % a = 0
FirstCandidateRounded(ws, a, first) ==
    /\ MultipleOf(first, a)
    /\ (MultipleOf(ws.min, a) /\ ws.sub = 0) => first = ws.min
    /\ first >= ws.min + ws.sub
    /\ first - ws.min < a + ws.sub
FirstCandidateOk ==
    (GenLuxon /\ fnPc # "called") =>
        FirstCandidateRounded(args.windowStart, alignmentOf(args.data), GenStart(fn, args))
StepsByAlignment ==
    (GenLuxon /\ GenIterate) => ret'[1] = ret[1] + alignmentOf(args.data)
C26_CandidateGrid == [](FirstCandidateOk) /\ [][StepsByAlignment]_vars

\* the same for the alignments that divide 60
C26_CandidateGridDividing60 ==
    /\ []((GenLuxon /\ MinutesPerHour % alignmentOf(args.data) # 0) \/ FirstCandidateOk)
    /\ [][StepsByAlignment]_vars

\* from 10:50 with alignment 45 the first candidate is 11:30
C26_OffGrid ==
    /\ GenLuxon /\ fnPc = "loop"
    /\ args.windowStart = [min |-> 650, sub |-> 0] /\ alignmentOf(args.data) = 45
    /\ ret[1] = 690

\* C27: for one window, one merged busy list and one slot duration, the alignment
\* being the duration, computeFreeSlots and computeFreeSlotsLuxon return the same
\* list of slots.
GeneratorsReturned == mode = "fn" /\ fn = "generators" /\ fnPc = "returned"
C27_SameSlots ==
    (GeneratorsReturned /\ args.windowStart.sub = 0) => ret[1] = ret[2]

\* window 09:00-11:00, busy 09:00-09:10, 30 minutes: the gap walk restarts at 09:10
C27_GapWalkOffGrid ==
    /\ GeneratorsReturned
    /\ args.windowStart = [min |-> 540, sub |-> 0] /\ args.windowEnd = 660
    /\ args.busy = <<Iv(540, 550)>> /\ args.duration = 30
    /\ ret[1] = <<Iv(550, 580), Iv(580, 610), Iv(610, 640)>>
    /\ ret[2] = <<Iv(570, 600), Iv(600, 630), Iv(630, 660)>>

\* the two lists are the same when the window start and every busy end lie on the
\* grid of the duration
C27_SameSlotsOnGrid ==
    (/\ GeneratorsReturned
     /\ OnWallClockGrid(args.windowStart, args.duration)
     /\ MinutesPerHour % args.duration = 0
     /\ \A i \in DOMAIN args.busy : args.busy[i].end % args.duration = 0) => ret[1] = ret[2]

\* C28: for valid intervals a merge preserves coverage: an instant lies in an
\* interval of the result exactly when it lies in an interval of the input, and
\* every interval of the input lies within exactly one interval of the result.
MergeInput ==
    IF fn = "mergeIntervals" THEN args.intervals ELSE ValidOnly(args.events)
Covered(t, list) == \E i \in DOMAIN list : list[i].start <= t /\ t < list[i].end
Instants == (540 - 1)..(615 + 1)
C28_CoveragePreserved ==
    (MergeReturned /\ WellFormedInput) =>
        /\ \A t \in Instants : Covered(t, ret) <=> Covered(t, MergeInput)
        /\ \A i \in DOMAIN MergeInput :
              Cardinality({ j \in DOMAIN ret :
                              /\ ret[j].start <= MergeInput[i].start
                              /\ MergeInput[i].end <= ret[j].end }) = 1

\* three intervals out of order, the last one bridging the first two into one
C28_Witness ==
    /\ MergeReturned /\ WellFormedInput
    /\ Len(MergeInput) = 3 /\ Len(ret) = 1
    /\ MergeInput[1].start > MergeInput[2].start
    /\ MergeInput[2].end < MergeInput[1].start
    /\ \E t \in Instants : Covered(t, ret) /\ ~Covered(t, SubSeq(MergeInput, 1, 2))

\* C29: computeFreeSlotsLuxon returns every candidate of its grid (the rounded-up
\* window start plus a whole number of alignment steps, ending within the
\* window) that conflicts with no busy interval; findAvailableSlotsMultiDay leaves
\* out a free, future, in-window grid candidate of a scanned day only when the
\* quota was reached by slots before it.
GridOf(first, windowEnd, dur, align) ==
    { first + k * align : k \in 0..((windowEnd - first) \div align) }
FreeOf(c, dur, busy) == \A i \in DOMAIN busy : Disjoint(c, c + dur, busy[i])
ScanOmitted(off) ==
    LET day == startDate + off
        dur == windowParams.slot_duration_minutes
    IN  { c \in GridOf(WindowStart(day, windowParams), WindowEnd(day, windowParams),
                       dur, slotAlignment) :
            /\ c + dur <= WindowEnd(day, windowParams)
            /\ c > now.min
            /\ FreeOf(c, dur, fetchBusyTimes(off))
            /\ ~ \E i \in DOMAIN allSlots : allSlots[i].start = c }
C29_Complete ==
    /\ (mode = "scan" /\ scanPc = "done") =>
          \A off \in 0..(daysToCheck - 1) : \A c \in ScanOmitted(off) :
              /\ Len(allSlots) = maxSlots
              /\ \A i \in DOMAIN allSlots : allSlots[i].start < c
    /\ LuxonReturned =>
          \A c \in GridOf(roundUpToAlignment(args.windowStart, args.alignment),
                          args.windowEnd, args.duration, args.alignment) :
              (c + args.duration <= args.windowEnd /\ FreeOf(c, args.duration, args.busy))
                  => \E i \in DOMAIN ret : ret[i] = Iv(c, c + args.duration)

\* a scan of two days, the clock inside the first window, that returned the free
\* candidates around a busy interval and left one out on reaching the quota
C29_Witness ==
    /\ mode = "scan" /\ scanPc = "done"
    /\ Len(allSlots) = maxSlots /\ maxSlots > 1
    /\ WindowStart(startDate, windowParams) < now.min
    /\ busyByDay[0] # <<>>
    /\ tested > Len(allSlots)
    /\ ScanOmitted(0) # {}

\* C30: an availability request leaves the calendar's reservations as they were;
\* the calls it issues on the calendar are the timezone lookup and the busy
\* fetches, after the authorisation of a client not yet cached, and never
\* calendar.events.insert.
CallsOf(name) == { i \in DOMAIN availCalls : availCalls[i].call = name }
=============================================================================
